---------------------------- MODULE Spec2Model ----------------------------
(***************************************************************************)
(* A model of codeclip's header extractor (internal/finder, headers.go),   *)
(* its parameter / return-type parser, and its snippet search and merge    *)
(* engine (internal/search, search.go).                                    *)
(*                                                                         *)
(* Text is modelled as a sequence of one-character strings, so that the    *)
(* splitting, trimming and joining the code performs are computed on the   *)
(* characters themselves.                                                  *)
(***************************************************************************)
EXTENDS Integers, Sequences, FiniteSets, TLC

VARIABLES
    \* parameter / return parser
    language,       \* language tag the parser is called with
    input,          \* raw text handed to the parser
    pstate,         \* "input" | "split" | "params" | "returns"
    groups,         \* result of splitParamsRespectingBrackets
    params,         \* result of parseParametersWithTypes
    returns,        \* result of parseReturnTypes
    built           \* how the input text was written: its kind and its items

pvars == <<language, input, pstate, groups, params, returns, built>>

VARIABLES
    \* snippet search and merge
    fileLines,      \* the lines of the file searched
    pattern,        \* the search pattern
    opts,           \* search.Options
    sstate,         \* "ready" | "searched" | "unmerged" | "merged"
    candidates,     \* the snippets searchInFile produced, before the merge
    snippets        \* the file's snippets as SearchInFiles returns them

svars == <<fileLines, pattern, opts, sstate, candidates, snippets>>

VARIABLES
    \* header collection
    fileContents,   \* the text of the file CollectHeaders reads
    fileLanguage,   \* DetectLanguage(path)
    fileReadable,   \* the file can be opened and read
    hstate,         \* "scanning" | "returned" | "failed"
    lineNum,        \* number of the line read last
    headers,        \* the headers collected so far
    inImportBlock,  \* the scan is inside an import ( ... ) block
    currentBlock,   \* the import block being filled: <<>> (nil) or <<header>>
    braceCount,     \* running count of { minus }
    currentClass    \* the Python class the scan is in

hvars == <<fileContents, fileLanguage, fileReadable, hstate, lineNum, headers, inImportBlock,
           currentBlock, braceCount, currentClass>>

VARIABLES
    \* formatting merge
    fsnippets,      \* the snippets of one file given to mergeFormattingSnippets
    fmerged,        \* the snippets it returns
    fstate          \* "unmerged" | "merged"

fvars == <<fsnippets, fmerged, fstate>>

VARIABLES
    \* SearchInFiles over a list of files
    searchFiles,    \* the files of the list: readable or not, and their lines
    searchPattern,  \* the pattern searched for
    searchOpts,     \* the Options
    fileIndex,      \* files the loop is done with
    lastMatches,    \* the snippets searchInFile returned for the last of them
    resultFiles,    \* result.Files
    searchErr,      \* the error returned: "nil", "read" or "pattern"
    lstate          \* "idle", "running", "returned", "failed"

lvars == <<searchFiles, searchPattern, searchOpts, fileIndex, lastMatches,
           resultFiles, searchErr, lstate>>

VARIABLES
    \* the search, glob and template commands, from the formatted text on
    command,        \* "search", "glob" or "template"
    formatted,      \* the text the command has formatted
    maxTokens,      \* --max-tokens
    targetOk,       \* whether CopyToTarget can write to the output target
    written,        \* what went to the output target, in a sequence; <<>> is nothing
    cmdErr,         \* the error RunE returns: "nil", "limit" or "copy"
    cstate          \* "idle", "ready", "done"

cvars == <<command, formatted, maxTokens, targetOk, written, cmdErr, cstate>>

VARIABLES
    \* FormatSearchResults on the result of SearchInFiles
    outOrder,       \* the paths in the order the map loop visits them
    outSnippets,    \* for each of them, what mergeFormattingSnippets returned
    outText,        \* the formatted text
    ostate          \* "idle", "formatted"

ovars == <<outOrder, outSnippets, outText, ostate>>

VARIABLES
    \* Parser.ProcessReader on one template
    template,       \* the lines of the template
    fileSystem,     \* what os.ReadFile finds at each path
    lineIndex,      \* lines scanned so far
    processed,      \* what has been written to result, line by line
    templateResult, \* the string ProcessReader returns
    templateErr,    \* "nil" or "read"
    tstate          \* "idle", "scanning", "done", "failed"

tvars == <<template, fileSystem, lineIndex, processed, templateResult, templateErr,
           tstate>>

vars == <<pvars, svars, hvars, fvars, lvars, cvars, ovars, tvars>>

-----------------------------------------------------------------------------
(* Bounds of the model *)

\* longest free-form input text (over InputAlphabet) handed to the parser
MaxInputLen == 4

\* most names sharing one type in a Go parameter list "a, b int"
MaxNames == 3

\* most "name type" groups in a Go parameter list "x int, y string"
MaxGroups == 2

\* most free lines of a searched file (between its runs of padding lines)
MaxCoreLines == 3

\* length of a run of padding lines put before or after the free lines
PadLines == 21

\* largest --context value searched with
MaxContext == 2

\* most snippets handed to one call of the merge on its own
MaxSnips == 3

\* largest context of a snippet handed to the merge on its own
\* snippets given to mergeFormattingSnippets
MaxFormatSnips == 2

\* last line of the file that the snippets given to it may reach
MaxFormatLine == 8

\* characters of a formatted text, and the largest --max-tokens
MaxChars == 24

MaxTokenLimit == 4

\* lines of a template, and pieces of a line
MaxTemplateLines == 2

MaxLineTokens == 2

\* files in the list SearchInFiles is given, and lines in each
MaxFiles == 2

MaxFileLines == 2

\* lines of a file given to CollectHeaders
MaxHeaderLines == 3

MaxMergeContext == 1

-----------------------------------------------------------------------------
(* Generic helpers *)

Min(a, b) == IF a < b THEN a ELSE b

Max(a, b) == IF a > b THEN a ELSE b

SetMin(S) == CHOOSE x \in S : \A y \in S : x <= y

SetMax(S) == CHOOSE x \in S : \A y \in S : x >= y

\* all sequences over S of length 0..n
SeqsUpTo(S, n) == UNION {[1..k -> S] : k \in 0..n}

-----------------------------------------------------------------------------
(* Go's strings package, on sequences of characters *)

\* unicode.IsSpace restricted to the characters a line can hold
IsSpace(c) == c \in {" ", "\t"}

\* strings.TrimSpace
TrimSpace(s) ==
    LET keep == {i \in 1..Len(s) : ~IsSpace(s[i])}
    IN  IF keep = {} THEN <<>> ELSE SubSeq(s, SetMin(keep), SetMax(keep))

\* strings.Trim(s, cutset)
Trim(s, cutset) ==
    LET keep == {i \in 1..Len(s) : s[i] \notin cutset}
    IN  IF keep = {} THEN <<>> ELSE SubSeq(s, SetMin(keep), SetMax(keep))

\* strings.TrimLeft(s, cutset)
TrimLeft(s, cutset) ==
    LET keep == {i \in 1..Len(s) : s[i] \notin cutset}
    IN  IF keep = {} THEN <<>> ELSE SubSeq(s, SetMin(keep), Len(s))

\* strings.HasPrefix
HasPrefix(s, p) == Len(s) >= Len(p) /\ SubSeq(s, 1, Len(p)) = p

\* strings.HasSuffix
HasSuffix(s, p) == Len(s) >= Len(p) /\ SubSeq(s, Len(s) - Len(p) + 1, Len(s)) = p

\* strings.Index, 0-based, -1 when absent
Index(s, sub) ==
    LET at == {i \in 1..(Len(s) - Len(sub) + 1) : SubSeq(s, i, i + Len(sub) - 1) = sub}
    IN  IF at = {} THEN -1 ELSE SetMin(at) - 1

\* strings.Contains
Contains(s, sub) == Index(s, sub) >= 0

\* strings.Count for a one-character substring
Count(s, c) == Cardinality({i \in 1..Len(s) : s[i] = c})

RECURSIVE SplitFrom(_, _, _)
SplitFrom(s, c, from) ==
    LET at == {i \in from..Len(s) : s[i] = c}
    IN  IF at = {} THEN <<SubSeq(s, from, Len(s))>>
        ELSE <<SubSeq(s, from, SetMin(at) - 1)>> \o SplitFrom(s, c, SetMin(at) + 1)

\* strings.Split(s, sep) for a one-character separator: n separators give
\* n + 1 pieces, empty pieces included
Split(s, c) == SplitFrom(s, c, 1)

\* strings.SplitN(s, sep, 2) for a one-character separator
SplitN2(s, c) ==
    LET at == {i \in 1..Len(s) : s[i] = c}
    IN  IF at = {} THEN <<s>>
        ELSE <<SubSeq(s, 1, SetMin(at) - 1), SubSeq(s, SetMin(at) + 1, Len(s))>>

RECURSIVE FieldsFrom(_, _)
FieldsFrom(s, from) ==
    LET first == {i \in from..Len(s) : ~IsSpace(s[i])}
    IN  IF first = {} THEN <<>>
        ELSE LET b    == SetMin(first)
                 stop == {i \in b..Len(s) : IsSpace(s[i])}
                 e    == IF stop = {} THEN Len(s) ELSE SetMin(stop) - 1
             IN  <<SubSeq(s, b, e)>> \o FieldsFrom(s, e + 1)

\* strings.Fields: the maximal runs of non-space characters
Fields(s) == FieldsFrom(s, 1)

RECURSIVE Join(_, _)
\* strings.Join(elems, sep)
Join(elems, sep) ==
    IF Len(elems) = 0 THEN <<>>
    ELSE IF Len(elems) = 1 THEN elems[1]
    ELSE elems[1] \o sep \o Join(Tail(elems), sep)

-----------------------------------------------------------------------------
(* Parameter / return-type parser (headers.go) *)

Openers == {"<", "(", "[", "{"}

Closers == {">", ")", "]", "}"}

\* ParameterInfo{Name, Type}
ParameterInfo(name, type) == [Name |-> name, Type |-> type]

RECURSIVE SplitLoop(_, _, _, _, _)
\* the loop of splitParamsRespectingBrackets: i is the 1-based position of
\* the character read, start the 0-based offset where the open group begins
SplitLoop(paramStr, i, depth, start, acc) ==
    IF i > Len(paramStr)
    THEN IF start < Len(paramStr)
         THEN Append(acc, SubSeq(paramStr, start + 1, Len(paramStr)))
         ELSE acc
    ELSE LET char == paramStr[i]
         IN  IF char \in Openers THEN SplitLoop(paramStr, i + 1, depth + 1, start, acc)
             ELSE IF char \in Closers THEN SplitLoop(paramStr, i + 1, depth - 1, start, acc)
             ELSE IF char = "," /\ depth = 0
                  THEN SplitLoop(paramStr, i + 1, depth, i,
                                 Append(acc, SubSeq(paramStr, start + 1, i - 1)))
             ELSE SplitLoop(paramStr, i + 1, depth, start, acc)

\* a splitter that cuts at every comma, whatever the bracket depth
splitParamsIgnoringBrackets(paramStr) ==
    IF paramStr = <<>> THEN <<>>
    ELSE LET pieces == Split(paramStr, ",")
         IN  IF pieces[Len(pieces)] = <<>> THEN SubSeq(pieces, 1, Len(pieces) - 1)
             ELSE pieces

\* splitParamsRespectingBrackets
splitParamsRespectingBrackets(paramStr) == SplitLoop(paramStr, 1, 0, 0, <<>>)

RECURSIVE GoNames(_, _)
\* the inner loop of the Go branch: one parameter per non-blank name
GoNames(names, paramType) ==
    IF Len(names) = 0 THEN <<>>
    ELSE LET name == TrimSpace(names[1])
         IN  (IF name # <<>> THEN <<ParameterInfo(name, paramType)>> ELSE <<>>)
             \o GoNames(Tail(names), paramType)

\* the body of the Go loop for one group
GoGroup(rawGroup) ==
    LET group == TrimSpace(rawGroup)
        parts == Fields(group)
    IN  IF group = <<>> THEN <<>>
        ELSE IF Len(parts) >= 2
        THEN LET paramType == parts[Len(parts)]
             IN  IF Len(parts) > 2 \/ Contains(parts[1], <<",">>)
                 THEN GoNames(Split(Join(SubSeq(parts, 1, Len(parts) - 1), <<" ">>), ","),
                              paramType)
                 ELSE <<ParameterInfo(parts[1], paramType)>>
        ELSE IF Len(parts) = 1 THEN <<ParameterInfo(<<>>, parts[1])>>
        ELSE <<>>

\* "Handle default values": keep what precedes the first "="
StripDefault(paramName) ==
    IF Contains(paramName, <<"=">>) THEN TrimSpace(SplitN2(paramName, "=")[1])
    ELSE paramName

\* the body of the Python loop for one group
PythonGroup(rawGroup) ==
    LET group == TrimSpace(rawGroup)
    IN  IF group = <<>> THEN <<>>
        ELSE IF Contains(group, <<":">>)
        THEN LET parts == SplitN2(group, ":")
                 paramName == TrimSpace(parts[1])
                 paramType == IF Len(parts) > 1 THEN TrimSpace(parts[2]) ELSE <<>>
             IN  <<ParameterInfo(StripDefault(paramName), paramType)>>
        ELSE <<ParameterInfo(StripDefault(group), <<>>)>>

\* the body of the JavaScript / TypeScript loop for one group
ScriptGroup(rawGroup) ==
    LET group == TrimSpace(rawGroup)
    IN  IF group = <<>> THEN <<>>
        ELSE IF Contains(group, <<":">>)
        THEN LET parts == SplitN2(group, ":")
                 paramName == TrimSpace(parts[1])
                 paramType == IF Len(parts) > 1 THEN TrimSpace(parts[2]) ELSE <<>>
             IN  <<ParameterInfo(paramName, paramType)>>
        ELSE <<ParameterInfo(group, <<>>)>>

\* the body of the default loop for one piece of a plain comma split
GenericGroup(rawP) ==
    LET p == TrimSpace(rawP)
        parts == Fields(p)
    IN  IF p = <<>> THEN <<>>
        ELSE IF Len(parts) >= 2
        THEN <<ParameterInfo(Join(SubSeq(parts, 1, Len(parts) - 1), <<" ">>),
                             parts[Len(parts)])>>
        ELSE IF Len(parts) = 1 THEN <<ParameterInfo(parts[1], <<>>)>>
        ELSE <<>>

RECURSIVE GoParams(_)
GoParams(gs) == IF Len(gs) = 0 THEN <<>> ELSE GoGroup(gs[1]) \o GoParams(Tail(gs))

RECURSIVE PythonParams(_)
PythonParams(gs) ==
    IF Len(gs) = 0 THEN <<>> ELSE PythonGroup(gs[1]) \o PythonParams(Tail(gs))

RECURSIVE ScriptParams(_)
ScriptParams(gs) ==
    IF Len(gs) = 0 THEN <<>> ELSE ScriptGroup(gs[1]) \o ScriptParams(Tail(gs))

RECURSIVE GenericParams(_)
GenericParams(ps) ==
    IF Len(ps) = 0 THEN <<>> ELSE GenericGroup(ps[1]) \o GenericParams(Tail(ps))

\* parseParametersWithTypes; a nil slice is the empty sequence
parseParametersWithTypes(paramStr, lang) ==
    IF TrimSpace(paramStr) = <<>> THEN <<>>
    ELSE IF lang = "go" THEN GoParams(splitParamsRespectingBrackets(paramStr))
    ELSE IF lang = "python" THEN PythonParams(splitParamsRespectingBrackets(paramStr))
    ELSE IF lang \in {"javascript", "typescript"}
         THEN ScriptParams(splitParamsRespectingBrackets(paramStr))
    ELSE GenericParams(Split(paramStr, ","))

\* parseReturnTypes without the TrimSpace of each element
parseReturnTypesUntrimmed(rawReturnStr, lang) ==
    LET returnStr == TrimSpace(rawReturnStr)
    IN  IF returnStr = <<>> THEN <<>>
        ELSE IF lang = "go" /\ HasPrefix(returnStr, <<"(">>) /\ HasSuffix(returnStr, <<")">>)
        THEN Split(SubSeq(returnStr, 2, Len(returnStr) - 1), ",")
        ELSE <<returnStr>>

\* parseReturnTypes; a nil slice is the empty sequence
parseReturnTypes(rawReturnStr, lang) ==
    LET returnStr == TrimSpace(rawReturnStr)
    IN  IF returnStr = <<>> THEN <<>>
        ELSE IF lang = "go" /\ HasPrefix(returnStr, <<"(">>) /\ HasSuffix(returnStr, <<")">>)
        THEN LET pieces == Split(SubSeq(returnStr, 2, Len(returnStr) - 1), ",")
             IN  [i \in 1..Len(pieces) |-> TrimSpace(pieces[i])]
        ELSE <<returnStr>>

-----------------------------------------------------------------------------
(* Inputs of the parser *)

Languages == {"go", "python", "typescript", "plaintext"}

InputAlphabet == {"a", ",", " ", "(", ")", "<", ">"}

ParamNames == {<<"a">>, <<"b">>, <<"x">>, <<"y">>, <<"m">>, <<"n">>}

TInt == <<"i", "n", "t">>

TString == <<"s", "t", "r", "i", "n", "g">>

TSliceFoo == <<"[", "]", "F", "o", "o">>

TMap == <<"m", "a", "p", "[", "s", "t", "r", "i", "n", "g", "]", "i", "n", "t">>

TFunc == <<"f", "u", "n", "c", "(", "i", "n", "t", ",", "i", "n", "t", ")">>

\* one-token Go types, some with brackets and a comma inside them
ParamTypes == {TInt, TString, TSliceFoo, TMap, TFunc}

\* "a, b int": the names joined by ", ", a space, the shared type
FormatShared(names, type) == Join(names, <<",", " ">>) \o <<" ">> \o type

\* "x int, y string": each group is name, space, type; groups joined by ", "
FormatPairs(pairs) ==
    Join([i \in 1..Len(pairs) |-> pairs[i].Name \o <<" ">> \o pairs[i].Type], <<",", " ">>)

\* the return texts "(int, error)" and "error"
ReturnPair == <<"(", "i", "n", "t", ",", " ", "e", "r", "r", "o", "r", ")">>

ReturnError == <<"e", "r", "r", "o", "r">>

TError == ReturnError

\* a Go channel parameter followed by a second parameter
ChanParams == <<"i", "n", " ", "<", "-", "c", "h", "a", "n", " ", "i", "n", "t", ",", " ", "n", " ", "i", "n", "t">>

\* a TypeScript callback parameter followed by a second parameter
ArrowParams == <<"c", "b", ":", " ", "(", ")", " ", "=", ">", " ", "v", "o", "i", "d", ",", " ", "x", ":", " ", "n", "u", "m", "b", "e", "r">>

FreeBuilt == [kind |-> "free", names |-> <<>>, type |-> <<>>, pairs |-> <<>>]

SharedBuilt(names, type) ==
    [kind |-> "shared", names |-> names, type |-> type, pairs |-> <<>>]

PairsBuilt(pairs) == [kind |-> "pairs", names |-> <<>>, type |-> <<>>, pairs |-> pairs]

\* a Python parameter: name, annotation, default; <<>> for a part left out
PythonBuilt(name, type) ==
    [kind |-> "python", names |-> <<name>>, type |-> type, pairs |-> <<>>]

PythonAnnotations == {<<>>, TInt, <<"s", "t", "r">>}

PythonDefaults == {<<>>, <<"5">>, <<"N", "o", "n", "e">>}

\* "name", "name = default", "name: type", "name: type = default"
FormatPython(name, type, default) ==
    name \o (IF type = <<>> THEN <<>> ELSE <<":", " ">> \o type)
         \o (IF default = <<>> THEN <<>> ELSE <<" ", "=", " ">> \o default)

NameLists == SeqsUpTo(ParamNames, MaxNames) \ {<<>>}

PairLists ==
    SeqsUpTo({ParameterInfo(n, t) : n \in ParamNames, t \in ParamTypes}, MaxGroups) \ {<<>>}

-----------------------------------------------------------------------------
(* The parser as a state machine: one call on one input *)

ParseIdle ==
    /\ language = "go"
    /\ input = <<>>
    /\ pstate = "idle"
    /\ groups = <<>>
    /\ params = <<>>
    /\ returns = <<>>
    /\ built = FreeBuilt

ParseStart ==
    /\ pstate = "input"
    /\ groups = <<>>
    /\ params = <<>>
    /\ returns = <<>>
    /\ \/ /\ language \in Languages
          /\ input \in SeqsUpTo(InputAlphabet, MaxInputLen) \cup {ChanParams, ArrowParams, ReturnPair, ReturnError}
          /\ built = FreeBuilt
       \/ /\ language = "go"
          /\ \E names \in NameLists, type \in ParamTypes :
                /\ input = FormatShared(names, type)
                /\ built = SharedBuilt(names, type)
       \/ /\ language = "go"
          /\ \E pairs \in PairLists :
                /\ input = FormatPairs(pairs)
                /\ built = PairsBuilt(pairs)
       \/ /\ language = "python"
          /\ \E name \in ParamNames, type \in PythonAnnotations, default \in PythonDefaults :
                /\ input = FormatPython(name, type, default)
                /\ built = PythonBuilt(name, type)

\* a call of splitParamsRespectingBrackets(input)
SplitParams ==
    /\ pstate = "input"
    /\ pstate' = "split"
    /\ groups' = splitParamsRespectingBrackets(input)
    /\ UNCHANGED <<language, input, params, returns, built>>
    /\ UNCHANGED <<svars, hvars, fvars, lvars, cvars, ovars, tvars>>

\* a call of parseParametersWithTypes(input, language)
ParseParameters ==
    /\ pstate = "input"
    /\ pstate' = "params"
    /\ params' = parseParametersWithTypes(input, language)
    /\ UNCHANGED <<language, input, groups, returns, built>>
    /\ UNCHANGED <<svars, hvars, fvars, lvars, cvars, ovars, tvars>>

\* a call of parseReturnTypes(input, language)
ParseReturns ==
    /\ pstate = "input"
    /\ pstate' = "returns"
    /\ returns' = parseReturnTypes(input, language)
    /\ UNCHANGED <<language, input, groups, params, built>>
    /\ UNCHANGED <<svars, hvars, fvars, lvars, cvars, ovars, tvars>>

-----------------------------------------------------------------------------
(* Regular expressions of the Go rule list (headers.go), matched the way   *)
(* regexp.FindStringSubmatch does: leftmost, greedy operators taking the   *)
(* most they can and lazy ones the least.  A match is the sequence of the  *)
(* groups, the whole match first (so group g is element g + 1); no match   *)
(* is the empty sequence.  A group that takes no part is the empty text.   *)

UpperCase == <<"A", "B", "C", "D", "E", "F", "G", "H", "I", "J", "K", "L", "M",
               "N", "O", "P", "Q", "R", "S", "T", "U", "V", "W", "X", "Y", "Z">>

LowerCase == <<"a", "b", "c", "d", "e", "f", "g", "h", "i", "j", "k", "l", "m",
               "n", "o", "p", "q", "r", "s", "t", "u", "v", "w", "x", "y", "z">>

Digits == {"0", "1", "2", "3", "4", "5", "6", "7", "8", "9"}

\* [A-Za-z0-9_], which is also \w
WordChars == {UpperCase[i] : i \in 1..26} \cup {LowerCase[i] : i \in 1..26} \cup Digits \cup {"_"}

\* \s on the characters a line can hold
SpaceChars == {" ", "\t"}

\* [A-Za-z0-9_\[\]<>]
TypeChars == WordChars \cup {"[", "]", "<", ">"}

\* last position of the longest run of characters of class that starts at
\* from; from - 1 when the run is empty
RunEnd(s, from, class) ==
    LET stop == {i \in from..Len(s) : s[i] \notin class}
    IN  IF stop = {} THEN Max(Len(s), from - 1) ELSE SetMin(stop) - 1

\* the same for the class of all characters but c
RunEndNot(s, from, c) ==
    LET stop == {i \in from..Len(s) : s[i] = c}
    IN  IF stop = {} THEN Max(Len(s), from - 1) ELSE SetMin(stop) - 1

\* the text word stands at position pos of s
HasAt(s, pos, word) ==
    pos + Len(word) - 1 <= Len(s) /\ SubSeq(s, pos, pos + Len(word) - 1) = word

\* s has character c at position pos
CharAt(s, pos, c) == pos >= 1 /\ pos <= Len(s) /\ s[pos] = c

\* \s*\((.*?)\)(?:\s+\(?([^{]*)\)?)? from the position after nameEnd: the
\* groups before it, then the parameters and the returns
CallTail(s, nameEnd, before) ==
    LET open == RunEnd(s, nameEnd + 1, SpaceChars) + 1
        closes == {i \in (open + 1)..Len(s) : s[i] = ")"}
    IN  IF ~CharAt(s, open, "(") \/ closes = {} THEN <<>>
        ELSE LET close == SetMin(closes)
                 ws == RunEnd(s, close + 1, SpaceChars)
                 paren == IF CharAt(s, ws + 1, "(") THEN ws + 1 ELSE ws
                 last == RunEndNot(s, paren + 1, "{")
             IN  IF ws < close + 1
                 THEN <<SubSeq(s, 1, close)>> \o before
                          \o <<SubSeq(s, open + 1, close - 1), <<>>>>
                 ELSE <<SubSeq(s, 1, last)>> \o before
                          \o <<SubSeq(s, open + 1, close - 1), SubSeq(s, paren + 1, last)>>

\* ^func\s+([A-Za-z0-9_]+)\s*\((.*?)\)(?:\s+\(?([^{]*)\)?)?
GoFunctionMatch(s) ==
    LET ws == RunEnd(s, 5, SpaceChars)
        name == RunEnd(s, ws + 1, WordChars)
    IN  IF ~HasAt(s, 1, <<"f", "u", "n", "c">>) \/ ws < 5 \/ name < ws + 1 THEN <<>>
        ELSE CallTail(s, name, <<SubSeq(s, ws + 1, name)>>)

\* ^func\s+\(\w+\s+\*?([A-Za-z0-9_]+)\)\s+([A-Za-z0-9_]+)\s*\((.*?)\)(?:\s+\(?([^{]*)\)?)?
GoMethodMatch(s) ==
    LET ws1 == RunEnd(s, 5, SpaceChars)
        recv == RunEnd(s, ws1 + 2, WordChars)
        ws2 == RunEnd(s, recv + 1, SpaceChars)
        from == IF CharAt(s, ws2 + 1, "*") THEN ws2 + 2 ELSE ws2 + 1
        parent == RunEnd(s, from, WordChars)
        ws3 == RunEnd(s, parent + 2, SpaceChars)
        name == RunEnd(s, ws3 + 1, WordChars)
    IN  IF \/ ~HasAt(s, 1, <<"f", "u", "n", "c">>)
           \/ ws1 < 5
           \/ ~CharAt(s, ws1 + 1, "(")
           \/ recv < ws1 + 2
           \/ ws2 < recv + 1
           \/ parent < from
           \/ ~CharAt(s, parent + 1, ")")
           \/ ws3 < parent + 2
           \/ name < ws3 + 1
        THEN <<>>
        ELSE CallTail(s, name, <<SubSeq(s, from, parent), SubSeq(s, ws3 + 1, name)>>)

\* ^type\s+([A-Za-z0-9_]+)\s+KEYWORD\s+{ for the keyword struct or interface
GoTypeMatch(s, keyword) ==
    LET ws1 == RunEnd(s, 5, SpaceChars)
        name == RunEnd(s, ws1 + 1, WordChars)
        ws2 == RunEnd(s, name + 1, SpaceChars)
        kw == ws2 + Len(keyword)
        ws3 == RunEnd(s, kw + 1, SpaceChars)
    IN  IF \/ ~HasAt(s, 1, <<"t", "y", "p", "e">>)
           \/ ws1 < 5
           \/ name < ws1 + 1
           \/ ws2 < name + 1
           \/ ~HasAt(s, ws2 + 1, keyword)
           \/ ws3 < kw + 1
           \/ ~CharAt(s, ws3 + 1, "{")
        THEN <<>>
        ELSE <<SubSeq(s, 1, ws3 + 1), SubSeq(s, ws1 + 1, name)>>

\* ^KEYWORD\s+([A-Za-z0-9_]+)(?:\s+([A-Za-z0-9_\[\]<>]+))?(?:\s*=\s*(.+))?
\* for the keyword const or var
GoValueMatch(s, keyword) ==
    LET k == Len(keyword)
        ws1 == RunEnd(s, k + 1, SpaceChars)
        name == RunEnd(s, ws1 + 1, WordChars)
        ws2 == RunEnd(s, name + 1, SpaceChars)
        type == RunEnd(s, ws2 + 1, TypeChars)
        hasType == ws2 >= name + 1 /\ type >= ws2 + 1
        at == IF hasType THEN type ELSE name
        ws3 == RunEnd(s, at + 1, SpaceChars)
        ws4 == RunEnd(s, ws3 + 2, SpaceChars)
        hasValue == CharAt(s, ws3 + 1, "=") /\ ws4 < Len(s)
        last == IF hasValue THEN Len(s) ELSE at
    IN  IF ~HasAt(s, 1, keyword) \/ ws1 < k + 1 \/ name < ws1 + 1 THEN <<>>
        ELSE <<SubSeq(s, 1, last),
               SubSeq(s, ws1 + 1, name),
               IF hasType THEN SubSeq(s, ws2 + 1, type) ELSE <<>>,
               IF hasValue THEN SubSeq(s, ws4 + 1, Len(s)) ELSE <<>>>>

\* ^import\s+\(
GoImportMatch(s) ==
    LET ws == RunEnd(s, 7, SpaceChars)
    IN  IF ~HasAt(s, 1, <<"i", "m", "p", "o", "r", "t">>) \/ ws < 7 \/ ~CharAt(s, ws + 1, "(") THEN <<>>
        ELSE <<SubSeq(s, 1, ws + 1)>>

\* position pos of s is a word boundary (\b)
WordBoundary(s, pos) ==
    (pos > 1 /\ pos - 1 <= Len(s) /\ s[pos - 1] \in WordChars)
        # (pos <= Len(s) /\ s[pos] \in WordChars)

\* KEYWORD\s+([A-Za-z0-9_]+)\s*\( at position pos: the position of the (,
\* or 0 when the text does not match there
CallAt(s, pos, keyword) ==
    LET kw == pos + Len(keyword) - 1
        ws == RunEnd(s, kw + 1, SpaceChars)
        name == RunEnd(s, ws + 1, WordChars)
        open == RunEnd(s, name + 1, SpaceChars) + 1
    IN  IF /\ WordBoundary(s, pos)
           /\ HasAt(s, pos, keyword)
           /\ ws >= kw + 1
           /\ name >= ws + 1
           /\ CharAt(s, open, "(")
        THEN open ELSE 0

\* the alternatives of (function|def|func), in the order they are tried
CallKeywords == <<<<"f", "u", "n", "c", "t", "i", "o", "n">>, <<"d", "e", "f">>, <<"f", "u", "n", "c">>>>

\* \b(function|def|func)\s+([A-Za-z0-9_]+)\s*\(, anywhere in the line
DefaultFunctionMatch(s) ==
    LET at == {pos \in 1..Len(s) : \E k \in 1..3 : CallAt(s, pos, CallKeywords[k]) > 0}
    IN  IF at = {} THEN <<>>
        ELSE LET pos == SetMin(at)
                 k == SetMin({j \in 1..3 : CallAt(s, pos, CallKeywords[j]) > 0})
                 kw == pos + Len(CallKeywords[k]) - 1
                 ws == RunEnd(s, kw + 1, SpaceChars)
             IN  <<SubSeq(s, pos, CallAt(s, pos, CallKeywords[k])),
                   CallKeywords[k],
                   SubSeq(s, ws + 1, RunEnd(s, ws + 1, WordChars))>>

\* \b(class)\s+([A-Za-z0-9_]+), anywhere in the line
DefaultClassMatch(s) ==
    LET word == <<"c", "l", "a", "s", "s">>
        ok(pos) == /\ WordBoundary(s, pos)
                   /\ HasAt(s, pos, word)
                   /\ RunEnd(s, pos + 5, SpaceChars) >= pos + 5
                   /\ RunEnd(s, RunEnd(s, pos + 5, SpaceChars) + 1, WordChars)
                          > RunEnd(s, pos + 5, SpaceChars)
        at == {pos \in 1..Len(s) : ok(pos)}
    IN  IF at = {} THEN <<>>
        ELSE LET pos == SetMin(at)
                 ws == RunEnd(s, pos + 5, SpaceChars)
                 name == RunEnd(s, ws + 1, WordChars)
             IN  <<SubSeq(s, pos, name), word, SubSeq(s, ws + 1, name)>>

\* [A-Za-z0-9_\[\],\s\.]
ReturnChars == WordChars \cup SpaceChars \cup {"[", "]", ",", "."}

\* [A-Za-z0-9_\.]
ModuleChars == WordChars \cup {"."}

\* [A-Z_] and [A-Z0-9_]
UpperStart == {UpperCase[i] : i \in 1..26} \cup {"_"}

UpperChars == UpperStart \cup Digits

\* (?:\s*->\s*([A-Za-z0-9_\[\],\s\.]+))?: at position pos: <<last position,
\* return text>>, or <<>> when the text does not match there
PyReturnTail(s, pos) ==
    LET ws1 == RunEnd(s, pos, SpaceChars)
        ws2 == RunEnd(s, ws1 + 3, SpaceChars)
        ret == RunEnd(s, ws2 + 1, ReturnChars)
    IN  IF HasAt(s, ws1 + 1, <<"-", ">">>)
        THEN IF ret >= ws2 + 1 /\ CharAt(s, ret + 1, ":")
             THEN <<ret + 1, SubSeq(s, ws2 + 1, ret)>>
             ELSE IF ret < ws2 + 1 /\ ws2 >= ws1 + 3 /\ CharAt(s, ws2 + 1, ":")
             THEN <<ws2 + 1, SubSeq(s, ws2, ws2)>>
             ELSE IF CharAt(s, pos, ":") THEN <<pos, <<>>>> ELSE <<>>
        ELSE IF CharAt(s, pos, ":") THEN <<pos, <<>>>> ELSE <<>>

\* (.*?)\) and the return tail, from position from: the lazy group ends
\* before the first ) after which the tail matches; then the groups before
\* it, the group itself and the return text
PyCloseAndTail(s, from, before) ==
    LET closes == {c \in from..Len(s) : s[c] = ")" /\ PyReturnTail(s, c + 1) # <<>>}
    IN  IF closes = {} THEN <<>>
        ELSE LET close == SetMin(closes)
                 tail == PyReturnTail(s, close + 1)
             IN  <<SubSeq(s, 1, tail[1])>> \o before
                     \o <<SubSeq(s, from, close - 1), tail[2]>>

\* def\s+([A-Za-z0-9_]+)\s*\( at position pos: <<first and last position of
\* the name, position of the (>>, or <<>>
PyDefAt(s, pos) ==
    LET ws == RunEnd(s, pos + 3, SpaceChars)
        name == RunEnd(s, ws + 1, WordChars)
        open == RunEnd(s, name + 1, SpaceChars) + 1
    IN  IF /\ HasAt(s, pos, <<"d", "e", "f">>)
           /\ ws >= pos + 3
           /\ name >= ws + 1
           /\ CharAt(s, open, "(")
        THEN <<ws + 1, name, open>> ELSE <<>>

\* ^def\s+([A-Za-z0-9_]+)\s*\((.*?)\)(?:\s*->\s*([A-Za-z0-9_\[\],\s\.]+))?:
PyFunctionMatch(s) ==
    LET def == PyDefAt(s, 1)
    IN  IF def = <<>> THEN <<>>
        ELSE PyCloseAndTail(s, def[3] + 1, <<SubSeq(s, def[1], def[2])>>)

\* (self|cls)(?:,\s*(.*?))?\) and the return tail, the receiver word ending
\* at position last
PyReceiverTail(s, last, before) ==
    LET withParams == PyCloseAndTail(s, RunEnd(s, last + 2, SpaceChars) + 1, before)
        without == PyReturnTail(s, last + 2)
    IN  IF CharAt(s, last + 1, ",") /\ withParams # <<>> THEN withParams
        ELSE IF CharAt(s, last + 1, ")") /\ without # <<>>
        THEN <<SubSeq(s, 1, without[1])>> \o before \o <<<<>>, without[2]>>
        ELSE <<>>

\* ^\s+def\s+([A-Za-z0-9_]+)\s*\((self|cls)(?:,\s*(.*?))?\)(?:\s*->\s*(...))?:
PyMethodMatch(s) ==
    LET ws == RunEnd(s, 1, SpaceChars)
        def == PyDefAt(s, ws + 1)
        self == <<"s", "e", "l", "f">>
        cls == <<"c", "l", "s">>
    IN  IF ws < 1 \/ def = <<>> THEN <<>>
        ELSE IF HasAt(s, def[3] + 1, self)
                /\ PyReceiverTail(s, def[3] + 4, <<SubSeq(s, def[1], def[2]), self>>) # <<>>
        THEN PyReceiverTail(s, def[3] + 4, <<SubSeq(s, def[1], def[2]), self>>)
        ELSE IF HasAt(s, def[3] + 1, cls)
        THEN PyReceiverTail(s, def[3] + 3, <<SubSeq(s, def[1], def[2]), cls>>)
        ELSE <<>>

\* ^class\s+([A-Za-z0-9_]+)(?:\((.*?)\))?:
PyClassMatch(s) ==
    LET ws == RunEnd(s, 6, SpaceChars)
        name == RunEnd(s, ws + 1, WordChars)
        closes == {c \in (name + 2)..Len(s) : s[c] = ")" /\ CharAt(s, c + 1, ":")}
    IN  IF ~HasAt(s, 1, <<"c", "l", "a", "s", "s">>) \/ ws < 6 \/ name < ws + 1 THEN <<>>
        ELSE IF CharAt(s, name + 1, "(") /\ closes # {}
        THEN <<SubSeq(s, 1, SetMin(closes) + 1), SubSeq(s, ws + 1, name),
               SubSeq(s, name + 2, SetMin(closes) - 1)>>
        ELSE IF CharAt(s, name + 1, ":")
        THEN <<SubSeq(s, 1, name + 1), SubSeq(s, ws + 1, name), <<>>>>
        ELSE <<>>

\* \s+(.+) or \s*(.+) from position pos to the end of the text, with at least
\* least white-space characters: the first position of the group, or 0
RestAfterSpace(s, pos, least) ==
    LET ws == RunEnd(s, pos, SpaceChars)
        count == ws - pos + 1
    IN  IF count < least THEN 0
        ELSE IF ws < Len(s) THEN ws + 1
        ELSE IF count > least THEN ws
        ELSE 0

\* ^(?:from\s+([A-Za-z0-9_\.]+)\s+)?import\s+(.+)
PyImportMatch(s) ==
    LET ws1 == RunEnd(s, 5, SpaceChars)
        module == RunEnd(s, ws1 + 1, ModuleChars)
        ws2 == RunEnd(s, module + 1, SpaceChars)
        word == <<"i", "m", "p", "o", "r", "t">>
        fromRest == RestAfterSpace(s, ws2 + 7, 1)
        rest == RestAfterSpace(s, 7, 1)
    IN  IF /\ HasAt(s, 1, <<"f", "r", "o", "m">>)
           /\ ws1 >= 5
           /\ module >= ws1 + 1
           /\ ws2 >= module + 1
           /\ HasAt(s, ws2 + 1, word)
           /\ fromRest > 0
        THEN <<s, SubSeq(s, ws1 + 1, module), SubSeq(s, fromRest, Len(s))>>
        ELSE IF HasAt(s, 1, word) /\ rest > 0
        THEN <<s, <<>>, SubSeq(s, rest, Len(s))>>
        ELSE <<>>

\* ^([A-Z_][A-Z0-9_]*)\s*=\s*(.+)
PyVariableMatch(s) ==
    LET name == RunEnd(s, 2, UpperChars)
        eq == RunEnd(s, name + 1, SpaceChars) + 1
        rest == RestAfterSpace(s, eq + 1, 0)
    IN  IF Len(s) >= 1 /\ s[1] \in UpperStart /\ CharAt(s, eq, "=") /\ rest > 0
        THEN <<s, SubSeq(s, 1, name), SubSeq(s, rest, Len(s))>>
        ELSE <<>>

\* ^[A-Za-z0-9_]+\s+([A-Za-z0-9_]+)\s*\(
CFunctionMatch(s) ==
    LET word == RunEnd(s, 1, WordChars)
        ws == RunEnd(s, word + 1, SpaceChars)
        name == RunEnd(s, ws + 1, WordChars)
        open == RunEnd(s, name + 1, SpaceChars) + 1
    IN  IF word >= 1 /\ ws >= word + 1 /\ name >= ws + 1 /\ CharAt(s, open, "(")
        THEN <<SubSeq(s, 1, open), SubSeq(s, ws + 1, name)>>
        ELSE <<>>

\* word\s+([A-Za-z0-9_]+) and then \s* and the character last (or nothing
\* when last is empty), the word at position pos: <<whole, name>> or <<>>
CKeywordAt(s, pos, word, last) ==
    LET ws == RunEnd(s, pos + Len(word), SpaceChars)
        name == RunEnd(s, ws + 1, WordChars)
        end == RunEnd(s, name + 1, SpaceChars) + 1
    IN  IF HasAt(s, pos, word) /\ ws >= pos + Len(word) /\ name >= ws + 1
        THEN IF last = <<>> THEN <<SubSeq(s, pos, name), SubSeq(s, ws + 1, name)>>
             ELSE IF CharAt(s, end, last[1])
             THEN <<SubSeq(s, pos, end), SubSeq(s, ws + 1, name)>>
             ELSE <<>>
        ELSE <<>>

\* the leftmost match of such an expression in the text
CKeywordMatch(s, word, last) ==
    LET at == {pos \in 1..Len(s) : CKeywordAt(s, pos, word, last) # <<>>}
    IN  IF at = {} THEN <<>> ELSE CKeywordAt(s, SetMin(at), word, last)

\* struct\s+([A-Za-z0-9_]+)\s*{
CStructMatch(s) == CKeywordMatch(s, <<"s", "t", "r", "u", "c", "t">>, <<"{">>)

\* #define\s+([A-Za-z0-9_]+)
CDefineMatch(s) == CKeywordMatch(s, <<"#", "d", "e", "f", "i", "n", "e">>, <<>>)

\* Pattern.FindStringSubmatch for the rule's expression
FindStringSubmatch(re, s) ==
    CASE re = "go.Function" -> GoFunctionMatch(s)
      [] re = "go.Method" -> GoMethodMatch(s)
      [] re = "go.Struct" -> GoTypeMatch(s, <<"s", "t", "r", "u", "c", "t">>)
      [] re = "go.Interface" -> GoTypeMatch(s, <<"i", "n", "t", "e", "r", "f", "a", "c", "e">>)
      [] re = "go.Constant" -> GoValueMatch(s, <<"c", "o", "n", "s", "t">>)
      [] re = "go.Variable" -> GoValueMatch(s, <<"v", "a", "r">>)
      [] re = "go.Import" -> GoImportMatch(s)
      [] re = "python.Function" -> PyFunctionMatch(s)
      [] re = "python.Method" -> PyMethodMatch(s)
      [] re = "python.Class" -> PyClassMatch(s)
      [] re = "python.Import" -> PyImportMatch(s)
      [] re = "python.Variable" -> PyVariableMatch(s)
      [] re = "c.Function" -> CFunctionMatch(s)
      [] re = "c.Struct" -> CStructMatch(s)
      [] re = "c.Define" -> CDefineMatch(s)
      [] re = "default.Function" -> DefaultFunctionMatch(s)
      [] re = "default.Class" -> DefaultClassMatch(s)

-----------------------------------------------------------------------------
(* Header collection (headers.go) *)

\* HeaderElement with the zero value in every field but the three given
HeaderElement(type, name, num) ==
    [Type |-> type, Name |-> name, LineNum |-> num, Signature |-> <<>>,
     Scope |-> <<>>, Parent |-> <<>>, Children |-> <<>>, EndLine |-> 0,
     Parameters |-> <<>>, ReturnTypes |-> <<>>, ValueType |-> <<>>, Value |-> <<>>]

\* LanguagePattern; a group the rule does not name is 0
LanguagePattern(type, re, nameGroup, parentGroup, paramsGroup, returnsGroup) ==
    [ElementType |-> type, Pattern |-> re, NameGroup |-> nameGroup,
     SignatureGroup |-> 0, ScopeGroup |-> 0, ParentGroup |-> parentGroup,
     ParamsGroup |-> paramsGroup, ReturnsGroup |-> returnsGroup]

\* the rule lists by language, each in the order the rules are tried
pythonPatterns ==
    <<LanguagePattern("Function", "python.Function", 1, 0, 2, 3),
      LanguagePattern("Method", "python.Method", 1, 0, 3, 4),
      LanguagePattern("Class", "python.Class", 1, 0, 2, 0),
      LanguagePattern("Import", "python.Import", 2, 1, 0, 0),
      [LanguagePattern("Variable", "python.Variable", 1, 0, 0, 0)
          EXCEPT !.SignatureGroup = 2]>>

cPatterns ==
    <<LanguagePattern("Function", "c.Function", 1, 0, 0, 0),
      LanguagePattern("Struct", "c.Struct", 1, 0, 0, 0),
      LanguagePattern("Define", "c.Define", 1, 0, 0, 0)>>

languagePatternRegistry ==
    [lang \in {"go", "python", "c"} |->
        IF lang = "python" THEN pythonPatterns ELSE
        IF lang = "c" THEN cPatterns ELSE
        <<LanguagePattern("Function", "go.Function", 1, 0, 2, 3),
          LanguagePattern("Method", "go.Method", 2, 1, 3, 4),
          LanguagePattern("Struct", "go.Struct", 1, 0, 0, 0),
          LanguagePattern("Interface", "go.Interface", 1, 0, 0, 0),
          LanguagePattern("Constant", "go.Constant", 1, 0, 0, 0),
          LanguagePattern("Variable", "go.Variable", 1, 0, 0, 0),
          LanguagePattern("Import", "go.Import", 0, 0, 0, 0)>>]

defaultPatterns ==
    <<LanguagePattern("Function", "default.Function", 2, 0, 0, 0),
      LanguagePattern("Class", "default.Class", 2, 0, 0, 0)>>

\* the rules CollectHeaders uses for a language
PatternsFor(lang) ==
    IF lang \in DOMAIN languagePatternRegistry THEN languagePatternRegistry[lang]
    ELSE defaultPatterns

\* matches[g]
Group(matches, g) == matches[g + 1]

RECURSIVE SplitOnFrom(_, _, _)
SplitOnFrom(s, sep, from) ==
    LET at == {i \in from..(Len(s) - Len(sep) + 1) : SubSeq(s, i, i + Len(sep) - 1) = sep}
    IN  IF at = {} THEN <<SubSeq(s, from, Len(s))>>
        ELSE <<SubSeq(s, from, SetMin(at) - 1)>>
                 \o SplitOnFrom(s, sep, SetMin(at) + Len(sep))

\* strings.Split(s, sep) for a separator of one or more characters
SplitOn(s, sep) == SplitOnFrom(s, sep, 1)

AsWord == <<" ", "a", "s", " ">>

\* the child a Python import line gets for one item of its list
ImportChild(rawItem, moduleFrom, num) ==
    LET item == TrimSpace(rawItem)
    IN  IF moduleFrom # <<>> /\ item = <<"*">>
        THEN <<[HeaderElement("Import", item, num) EXCEPT !.Parent = moduleFrom]>>
        ELSE IF Contains(item, AsWord)
        THEN <<[HeaderElement("Import", TrimSpace(SplitOn(item, AsWord)[1]), num)
                   EXCEPT !.Parent = moduleFrom,
                          !.Signature = TrimSpace(SplitOn(item, AsWord)[2])]>>
        ELSE IF item # <<>>
        THEN <<[HeaderElement("Import", item, num) EXCEPT !.Parent = moduleFrom]>>
        ELSE <<>>

RECURSIVE ImportChildren(_, _, _)
ImportChildren(importItems, moduleFrom, num) ==
    IF importItems = <<>> THEN <<>>
    ELSE ImportChild(Head(importItems), moduleFrom, num)
             \o ImportChildren(Tail(importItems), moduleFrom, num)

\* the value of a constant or variable: trimmed, a trailing // comment cut
ValueOf(raw) ==
    LET v == TrimSpace(raw)
        idx == Index(v, <<"/", "/">>)
    IN  IF idx >= 0 THEN TrimSpace(SubSeq(v, 1, idx)) ELSE v

\* the header a matching rule gives for a line, before its members are read
BuildHeader(rule, matches, trimmedLine, num, lang, class) ==
    LET n == Len(matches)
        parent == IF rule.ParentGroup > 0 /\ n > rule.ParentGroup
                  THEN Group(matches, rule.ParentGroup) ELSE <<>>
        parent2 == IF lang = "python" /\ rule.ElementType = "Method"
                      /\ parent = <<>> /\ class # <<>>
                   THEN class ELSE parent
        name == Group(matches, rule.NameGroup)
        valued == rule.ElementType \in {"Constant", "Variable"}
    IN  [Type |-> rule.ElementType,
         Name |-> name,
         LineNum |-> num,
         Signature |-> IF rule.SignatureGroup > 0 /\ n > rule.SignatureGroup
                       THEN Group(matches, rule.SignatureGroup) ELSE trimmedLine,
         Scope |-> IF rule.ScopeGroup > 0 /\ n > rule.ScopeGroup
                   THEN Group(matches, rule.ScopeGroup) ELSE <<>>,
         Parent |-> parent2,
         Children |-> IF lang = "python" /\ rule.ElementType = "Import"
                      THEN ImportChildren(Split(name, ","), parent2, num)
                      ELSE <<>>,
         EndLine |-> 0,
         Parameters |-> IF rule.ParamsGroup > 0 /\ n > rule.ParamsGroup
                        THEN parseParametersWithTypes(Group(matches, rule.ParamsGroup), lang)
                        ELSE <<>>,
         ReturnTypes |-> IF rule.ReturnsGroup > 0 /\ n > rule.ReturnsGroup
                         THEN parseReturnTypes(Group(matches, rule.ReturnsGroup), lang)
                         ELSE <<>>,
         ValueType |-> IF valued /\ n > 2 /\ Group(matches, 2) # <<>>
                       THEN Group(matches, 2) ELSE <<>>,
         Value |-> IF valued /\ n > 3 /\ Group(matches, 3) # <<>>
                   THEN ValueOf(Group(matches, 3)) ELSE <<>>]

FieldStopWords ==
    {<<"{">>, <<"}">>, <<"s", "t", "r", "u", "c", "t">>, <<"c", "l", "a", "s", "s">>}

\* extractField: the field name of a member line, or the empty text
extractField(rawLine) ==
    LET idx == Index(rawLine, <<"/", "/">>)
        line == TrimSpace(IF idx >= 0 THEN SubSeq(rawLine, 1, idx) ELSE rawLine)
        parts == Fields(line)
        fieldName == Trim(parts[1], {":", ","})
    IN  IF \/ HasPrefix(rawLine, <<"/", "/">>)
           \/ HasPrefix(rawLine, <<"/", "*">>)
           \/ TrimSpace(rawLine) = <<>>
        THEN <<>>
        ELSE IF Len(parts) > 0 /\ fieldName \notin FieldStopWords THEN fieldName
        ELSE <<>>

RECURSIVE MembersLoop(_, _, _, _, _)
\* the loop of extractMembers at line i (1-based)
MembersLoop(header, lines, i, count, insideBlock) ==
    IF i > Len(lines) THEN header
    ELSE LET line == TrimSpace(lines[i])
             inside == insideBlock \/ Contains(line, <<"{">>)
             count2 == count + Count(line, "{") - Count(line, "}")
             field == IF Contains(line, <<":">>) \/ Contains(line, <<" ">>)
                      THEN extractField(line) ELSE <<>>
             header2 == IF field = <<>> THEN header
                        ELSE [header EXCEPT !.Children =
                                 Append(@, HeaderElement("Field", field, i))]
         IN  IF ~inside THEN MembersLoop(header, lines, i + 1, count, FALSE)
             ELSE IF count2 = 0 THEN [header2 EXCEPT !.EndLine = i]
             ELSE MembersLoop(header2, lines, i + 1, count2, TRUE)

\* extractMembers: the header with its fields and end line filled in
extractMembers(header, startLine, lines) ==
    IF startLine >= Len(lines) THEN header
    ELSE MembersLoop(header, lines, startLine, 0, FALSE)

\* the loop variables of CollectHeaders; a nil currentBlock is <<>>
ScanState(hs, inImport, block, count, class) ==
    [headers |-> hs, inImportBlock |-> inImport, currentBlock |-> block,
     braceCount |-> count, currentClass |-> class]

\* the rule's header goes to the list, a struct or class with its members
\* read; the opening line of an import block opens the block instead and the
\* loop goes on with the next rule
RECURSIVE TryPatterns(_, _, _, _, _, _, _)
\* a variant of Matched without the break: the loop goes on with the next
\* rule after the header went to the list
MatchedNoBreak(rules, k, st, trimmedLine, n, lang, lines, header, whole) ==
    TryPatterns(rules, k + 1,
        [st EXCEPT !.headers = Append(@, IF header.Type \in {"Struct", "Class"}
                                          THEN extractMembers(header, n, lines)
                                          ELSE header),
                   !.currentClass = IF lang = "python" /\ header.Type = "Class"
                                    THEN header.Name ELSE @],
        trimmedLine, n, lang, lines)

Matched(rules, k, st, trimmedLine, n, lang, lines, header, whole) ==
    IF header.Type = "Import" /\ whole = <<"i", "m", "p", "o", "r", "t", " ", "(">>
    THEN TryPatterns(rules, k + 1,
             [st EXCEPT !.inImportBlock = TRUE,
                        !.currentBlock = <<header>>],
             trimmedLine, n, lang, lines)
    ELSE [st EXCEPT !.headers = Append(@, IF header.Type \in {"Struct", "Class"}
                                          THEN extractMembers(header, n, lines)
                                          ELSE header),
                    !.currentClass = IF lang = "python" /\ header.Type = "Class"
                                     THEN header.Name ELSE @]

\* rule k with its submatches for the line
TryRule(rules, k, st, trimmedLine, n, lang, lines, matches) ==
    IF Len(matches) > rules[k].NameGroup /\ rules[k].NameGroup > 0
    THEN Matched(rules, k, st, trimmedLine, n, lang, lines,
                 BuildHeader(rules[k], matches, trimmedLine, n, lang, st.currentClass),
                 Group(matches, 0))
    ELSE TryPatterns(rules, k + 1, st, trimmedLine, n, lang, lines)

\* the loop over the rules from rule k on, for one line
TryPatterns(rules, k, st, trimmedLine, n, lang, lines) ==
    IF k > Len(rules) THEN st
    ELSE TryRule(rules, k, st, trimmedLine, n, lang, lines,
                 FindStringSubmatch(rules[k].Pattern, trimmedLine))

\* a variant of ImportBlockLine: the lines of the block come out as headers
\* of their own, the import line's header when the block closes
ImportBlockLineFlat(st, trimmedLine, n) ==
    IF trimmedLine = <<")">>
    THEN IF st.currentBlock # <<>>
         THEN [st EXCEPT !.inImportBlock = FALSE,
                         !.headers = Append(@, [st.currentBlock[1] EXCEPT !.EndLine = n]),
                         !.currentBlock = <<>>]
         ELSE [st EXCEPT !.inImportBlock = FALSE]
    ELSE [st EXCEPT !.headers = Append(@, HeaderElement("Import", trimmedLine, n))]

\* a line of an import block
ImportBlockLine(st, trimmedLine, n) ==
    IF trimmedLine = <<")">>
    THEN IF st.currentBlock # <<>>
         THEN [st EXCEPT !.inImportBlock = FALSE,
                         !.headers = Append(@, [st.currentBlock[1] EXCEPT !.EndLine = n]),
                         !.currentBlock = <<>>]
         ELSE [st EXCEPT !.inImportBlock = FALSE]
    ELSE IF ~HasPrefix(trimmedLine, <<"/", "/">>) /\ trimmedLine # <<>>
    THEN IF st.currentBlock # <<>>
         THEN [st EXCEPT !.currentBlock = <<[st.currentBlock[1] EXCEPT !.Children =
                  Append(@, HeaderElement("Import", Trim(trimmedLine, {" ", "\t", "\""}), n))]>>]
         ELSE st
    ELSE st

\* one pass of the scanner loop of CollectHeaders: line number n of the file
ScanStep(st, line, n, lang, lines) ==
    LET trimmedLine == TrimSpace(line)
        leadingSpaces == Len(line) - Len(TrimLeft(line, {" ", "\t"}))
        st1 == IF lang = "python" /\ leadingSpaces = 0 /\ trimmedLine # <<>>
               THEN [st EXCEPT !.currentClass = <<>>] ELSE st
        st2 == [st1 EXCEPT !.braceCount =
                   @ + Count(trimmedLine, "{") - Count(trimmedLine, "}")]
    IN  IF \/ trimmedLine = <<>>
           \/ HasPrefix(trimmedLine, <<"/", "/">>)
           \/ HasPrefix(trimmedLine, <<"#">>)
           \/ HasPrefix(trimmedLine, <<"/", "*">>)
        THEN st
        ELSE IF st2.inImportBlock THEN ImportBlockLine(st2, trimmedLine, n)
        ELSE TryPatterns(PatternsFor(lang), 1, st2, trimmedLine, n, lang, lines)

\* bufio.MaxScanTokenSize, the buffer limit of a Scanner made by NewScanner:
\* a line of this many bytes or more cannot be read
MaxScanTokenSize == 65536

\* strings.Split(string(fileContents), "\n")
BlockLines(contents) == Split(contents, "\n")

\* the lines bufio.Scanner yields: an empty piece after the last newline is
\* not a line
ScannerLines(contents) ==
    LET pieces == Split(contents, "\n")
    IN  IF pieces[Len(pieces)] = <<>> THEN SubSeq(pieces, 1, Len(pieces) - 1)
        ELSE pieces

-----------------------------------------------------------------------------
(* Snippet search (search.go) *)

\* the window the merge treats as adjacent
adjacencyBuffer == 3

\* lines taken from the start line when no end of the function is found
fallbackLines == 20

NewLine == <<"\n">>

\* case folding of the (?i) flag, on ASCII letters
Fold(c) ==
    IF \E i \in 1..26 : UpperCase[i] = c
    THEN LowerCase[CHOOSE i \in 1..26 : UpperCase[i] = c]
    ELSE c

\* strings.Join(strings.Split(pattern, ""), ".*"): the expression of a fuzzy
\* search, without its "(?i)" flag
RECURSIVE FuzzyPattern(_)
FuzzyPattern(pat) ==
    IF Len(pat) <= 1 THEN pat
    ELSE <<Head(pat), ".", "*">> \o FuzzyPattern(Tail(pat))

RECURSIVE ParenDepth(_, _, _)
\* the nesting depth after expr[i..], -1 once a ) closes nothing
ParenDepth(expr, i, depth) ==
    IF depth < 0 \/ i > Len(expr) THEN depth
    ELSE ParenDepth(expr, i + 1,
                    depth + (IF expr[i] = "(" THEN 1 ELSE IF expr[i] = ")" THEN -1 ELSE 0))

\* regexp.Compile succeeds on an expression of letters, spaces, dots, stars
\* after a character, and parentheses: the parentheses have to pair up
Compiles(expr) ==
    /\ ParenDepth(expr, 1, 0) = 0
    /\ \A i \in 1..Len(expr) : expr[i] = "*" => i > 1 /\ expr[i - 1] \notin {"*", "("}

\* one character of the line against one character of the expression
AtomMatches(atom, c, fold) ==
    atom = "." \/ (IF fold THEN Fold(atom) = Fold(c) ELSE atom = c)

RECURSIVE MatchHere(_, _, _, _, _)
\* expr[i..] matches a piece of the line that starts at position j
MatchHere(expr, i, line, j, fold) ==
    IF i > Len(expr) THEN TRUE
    ELSE IF i < Len(expr) /\ expr[i + 1] = "*"
    THEN \E k \in j..(Len(line) + 1) :
            /\ \A at \in j..(k - 1) : AtomMatches(expr[i], line[at], fold)
            /\ MatchHere(expr, i + 2, line, k, fold)
    ELSE /\ j <= Len(line)
         /\ AtomMatches(expr[i], line[j], fold)
         /\ MatchHere(expr, i + 1, line, j + 1, fold)

\* regex.MatchString(line) for the expression searchInFile compiles from a
\* pattern of letters, spaces and dots: the pattern itself, or, in fuzzy mode,
\* "(?i)" and its characters joined by ".*"
MatchString(pat, fuzzy, line) ==
    \E j \in 1..(Len(line) + 1) :
        MatchHere(IF fuzzy THEN FuzzyPattern(pat) ELSE pat, 1, line, j, fuzzy)

\* "Match at line N"
MatchAt(n) == <<"Match at line", n>>

\* "Function containing match at line N"
FunctionAt(n) == <<"Function containing match at line", n>>

\* "Multiple matches between lines A-B"
MultipleBetween(a, b) == <<"Multiple matches between lines", a, b>>

\* CodeSnippet{StartLine, EndLine, Content, MatchInfo}
CodeSnippet(start, end, content, info) ==
    [StartLine |-> start, EndLine |-> end, Content |-> content, MatchInfo |-> info]

\* strings.Join(lines[start:end+1], "\n"), start and end 0-based
JoinLines(lines, start, end) == Join(SubSeq(lines, start + 1, end + 1), NewLine)

\* the test of the backward scan: the line names a function
HasFuncKeyword(line) ==
    Contains(line, <<"f", "u", "n", "c", " ">>) \/ Contains(line, <<"f", "u", "n", "c", "t", "i", "o", "n", " ">>)

RECURSIVE FindStart(_, _)
\* the backward scan of findFunctionBounds; start is 0-based
FindStart(lines, start) ==
    IF start > 0 /\ ~HasFuncKeyword(lines[start + 1])
    THEN FindStart(lines, start - 1)
    ELSE start

RECURSIVE FindEndStrict(_, _, _, _)
\* a forward scan that stops only where the count is exactly zero
FindEndStrict(lines, i, bracketCount, matchLine) ==
    IF i >= Len(lines) THEN 0
    ELSE LET count == bracketCount + Count(lines[i + 1], "{") - Count(lines[i + 1], "}")
         IN  IF count = 0 /\ i > matchLine THEN i
             ELSE FindEndStrict(lines, i + 1, count, matchLine)

RECURSIVE FindEnd(_, _, _, _)
\* the forward scan of findFunctionBounds; i and matchLine are 0-based, the
\* result is 0 when the loop ends without setting end
FindEnd(lines, i, bracketCount, matchLine) ==
    IF i >= Len(lines) THEN 0
    ELSE LET count == bracketCount + Count(lines[i + 1], "{") - Count(lines[i + 1], "}")
         IN  IF count <= 0 /\ i > matchLine THEN i
             ELSE FindEnd(lines, i + 1, count, matchLine)

\* findFunctionBounds: <<start, end>>, 0-based
findFunctionBounds(lines, matchLine) ==
    LET start == FindStart(lines, matchLine)
        end   == FindEnd(lines, start, 0, matchLine)
    IN  <<start, IF end = 0 THEN Min(Len(lines) - 1, start + fallbackLines) ELSE end>>

\* extractSnippet with the display line one too small
extractSnippetZeroBased(lines, matchLine, o) ==
    LET start == Max(0, matchLine - o.ContextLines)
        end   == Min(Len(lines) - 1, matchLine + o.ContextLines)
    IN  CodeSnippet(start, end + 1, JoinLines(lines, start, end), MatchAt(matchLine + 1))

\* extractSnippet; matchLine is 0-based
extractSnippet(lines, matchLine, o) ==
    IF o.EntireFunction
    THEN LET b == findFunctionBounds(lines, matchLine)
         IN  CodeSnippet(b[1] + 1, b[2] + 1, JoinLines(lines, b[1], b[2]),
                         FunctionAt(matchLine + 1))
    ELSE LET start == Max(0, matchLine - o.ContextLines)
             end   == Min(Len(lines) - 1, matchLine + o.ContextLines)
         IN  CodeSnippet(start + 1, end + 1, JoinLines(lines, start, end),
                         MatchAt(matchLine + 1))

RECURSIVE ScanLines(_, _, _, _)
\* the loop of searchInFile over the lines, from 0-based line i
ScanLines(lines, pat, o, i) ==
    IF i >= Len(lines) THEN <<>>
    ELSE (IF MatchString(pat, o.FuzzySearch, lines[i + 1])
          THEN <<extractSnippet(lines, i, o)>>
          ELSE <<>>) \o ScanLines(lines, pat, o, i + 1)

RECURSIVE ScannedLines(_)
\* the lines the scanner of searchInFile yields: it stops for good at a line
\* it cannot hold, and its error is not looked at
ScannedLines(lines) ==
    IF lines = <<>> \/ Len(Head(lines)) >= MaxScanTokenSize THEN <<>>
    ELSE <<Head(lines)>> \o ScannedLines(Tail(lines))

\* searchInFile on a readable file and a pattern that compiles: its Snippets
searchInFile(lines, pat, o) == ScanLines(ScannedLines(lines), pat, o, 0)

-----------------------------------------------------------------------------
(* Snippet merge (search.go) *)

\* every order sort.Slice may leave the snippets in: sorted by StartLine,
\* snippets with equal StartLine in any order (the sort is not stable)
SortOutcomes(snips) ==
    LET n == Len(snips)
        perms == {f \in [1..n -> 1..n] : \A i, j \in 1..n : i # j => f[i] # f[j]}
    IN  {[i \in 1..n |-> snips[f[i]]] :
            f \in {g \in perms :
                     \A i \in 1..(n - 1) : snips[g[i]].StartLine <= snips[g[i + 1]].StartLine}}

\* a test that merges only snippets that overlap
OverlapsOnly(current, previous) == current.StartLine <= previous.EndLine

\* the test of the merge: current overlaps previous or lies within the buffer
Adjacent(current, previous) == current.StartLine <= previous.EndLine + adjacencyBuffer

\* previous after current is merged into it
MergeInto(previous, current) ==
    LET grown ==
            IF current.EndLine > previous.EndLine
            THEN LET lines == Split(previous.Content, "\n")
                     currentLines == Split(current.Content, "\n")
                     linesToAdd == current.EndLine - previous.EndLine
                     joined ==
                         IF linesToAdd > 0 /\ Len(currentLines) >= linesToAdd
                         THEN lines \o SubSeq(currentLines,
                                              Len(currentLines) - linesToAdd + 1,
                                              Len(currentLines))
                         ELSE lines
                 IN  [previous EXCEPT !.Content = Join(joined, NewLine),
                                      !.EndLine = current.EndLine]
            ELSE previous
    IN  IF grown.MatchInfo # current.MatchInfo
        THEN [grown EXCEPT !.MatchInfo = MultipleBetween(grown.StartLine, grown.EndLine)]
        ELSE grown

RECURSIVE MergeLoopAgainstInput(_, _, _)
\* a merge loop that tests each snippet against the input snippet before it
MergeLoopAgainstInput(sorted, i, result) ==
    IF i > Len(sorted) THEN result
    ELSE LET current == sorted[i]
             previous == result[Len(result)]
         IN  IF Adjacent(current, sorted[i - 1])
             THEN MergeLoopAgainstInput(sorted, i + 1,
                      [result EXCEPT ![Len(result)] = MergeInto(previous, current)])
             ELSE MergeLoopAgainstInput(sorted, i + 1, Append(result, current))

RECURSIVE MergeLoop(_, _, _)
\* the merge loop from index i (1-based) with the snippets accepted so far
MergeLoop(sorted, i, result) ==
    IF i > Len(sorted) THEN result
    ELSE LET current == sorted[i]
             previous == result[Len(result)]
         IN  IF Adjacent(current, previous)
             THEN MergeLoop(sorted, i + 1,
                      [result EXCEPT ![Len(result)] = MergeInto(previous, current)])
             ELSE MergeLoop(sorted, i + 1, Append(result, current))

\* a first pass that sorts the snippets and merges none
MergeNone(snips) == SortOutcomes(snips)

\* every result mergeOverlappingSnippets may return
mergeOverlappingSnippets(snips) ==
    IF Len(snips) <= 1 THEN {snips}
    ELSE {MergeLoop(sorted, 2, <<sorted[1]>>) : sorted \in SortOutcomes(snips)}

-----------------------------------------------------------------------------
(* Formatting merge (formatter.go) *)

formattingSnippet(start, end, content, lang, path) ==
    [StartLine |-> start, EndLine |-> end, Content |-> content,
     Language |-> lang, Path |-> path]

\* overlap > 0 && float64(overlap) >= float64(smallerRange)*0.5
SignificantOverlap(overlap, smallerRange) ==
    overlap > 0 /\ 2 * overlap >= smallerRange

\* a step that leaves previous as it is when current reaches past its end
FormatStepNoExtend(result, current) ==
    LET previous == result[Len(result)]
        overlap == Min(previous.EndLine, current.EndLine)
                       - Max(previous.StartLine, current.StartLine)
        smallerRange == Min(previous.EndLine - previous.StartLine,
                            current.EndLine - current.StartLine)
    IN  IF SignificantOverlap(overlap, smallerRange)
        THEN [result EXCEPT ![Len(result)] =
                 [previous EXCEPT !.StartLine = Min(previous.StartLine, current.StartLine),
                                  !.EndLine = Max(previous.EndLine, current.EndLine),
                                  !.Content = IF current.EndLine - current.StartLine
                                                     >= previous.EndLine - previous.StartLine
                                              THEN current.Content
                                              ELSE previous.Content]]
        ELSE IF current.StartLine > previous.EndLine THEN Append(result, current)
        ELSE result

\* one pass of the loop of mergeFormattingSnippets: result after current
FormatStep(result, current) ==
    LET previous == result[Len(result)]
        overlap == Min(previous.EndLine, current.EndLine)
                       - Max(previous.StartLine, current.StartLine)
        smallerRange == Min(previous.EndLine - previous.StartLine,
                            current.EndLine - current.StartLine)
        \* the third branch: EndLine is set before linesToAdd is computed
        extended == [previous EXCEPT !.EndLine = current.EndLine]
        linesPrevious == Split(extended.Content, "\n")
        linesCurrent == Split(current.Content, "\n")
        linesToAdd == current.EndLine - extended.EndLine
    IN  IF SignificantOverlap(overlap, smallerRange)
        THEN [result EXCEPT ![Len(result)] =
                 [previous EXCEPT !.StartLine = Min(previous.StartLine, current.StartLine),
                                  !.EndLine = Max(previous.EndLine, current.EndLine),
                                  !.Content = IF current.EndLine - current.StartLine
                                                     >= previous.EndLine - previous.StartLine
                                              THEN current.Content
                                              ELSE previous.Content]]
        ELSE IF current.StartLine > previous.EndLine THEN Append(result, current)
        ELSE IF current.EndLine > previous.EndLine
        THEN [result EXCEPT ![Len(result)] =
                 IF Len(linesCurrent) >= linesToAdd
                 THEN [extended EXCEPT !.Content =
                          Join(linesPrevious
                                   \o SubSeq(linesCurrent,
                                             Len(linesCurrent) - linesToAdd + 1,
                                             Len(linesCurrent)),
                               NewLine)]
                 ELSE extended]
        ELSE result

RECURSIVE FormatLoop(_, _, _)
\* the loop of mergeFormattingSnippets from index i (1-based)
FormatLoop(sorted, i, result) ==
    IF i > Len(sorted) THEN result
    ELSE FormatLoop(sorted, i + 1, FormatStep(result, sorted[i]))

\* every result mergeFormattingSnippets may return
mergeFormattingSnippets(snips) ==
    IF Len(snips) <= 1 THEN {snips}
    ELSE {FormatLoop(sorted, 2, <<sorted[1]>>) : sorted \in SortOutcomes(snips)}

-----------------------------------------------------------------------------
(* Inputs of the search *)

LFoo == <<"f", "o", "o">>

LBarBaz == <<"b", "a", "r", " ", "b", "a", "z">>

LQux == <<"q", "u", "x">>

LFuncF == <<"f", "u", "n", "c", " ", "f", "(", ")", " ", "{">>

LFuncBaz == <<"f", "u", "n", "c", " ", "b", "a", "z", "(", ")", " ", "{">>

LClose == <<"}">>

LPad == <<"p", "a", "d">>

\* the lines the free part of a searched file is written with
LineKinds == {LFoo, LBarBaz, LQux, LFuncF, LFuncBaz, LClose}

PBaz == <<"b", "a", "z">>

PBz == <<"b", "z">>

\* the searches run: a pattern with the fuzzy flag it is searched with
Searches == {<<PBaz, FALSE>>, <<PBz, TRUE>>}

\* n padding lines
Padding(n) == [i \in 1..n |-> LPad]

\* the options searched with; with EntireFunction set, extractSnippet never
\* reads ContextLines
SearchOptions ==
    [ContextLines : 0..MaxContext, EntireFunction : {FALSE}, FuzzySearch : BOOLEAN]
    \cup [ContextLines : {MaxContext}, EntireFunction : {TRUE}, FuzzySearch : BOOLEAN]

\* lines of padding before and after the free lines of a searched file
Paddings == {<<0, 0>>, <<PadLines, 0>>, <<0, PadLines>>}

\* the file the merge on its own takes its snippets from: nine distinct lines
MergeFile == <<<<"1">>, <<"2">>, <<"3">>, <<"4">>, <<"5">>, <<"6">>, <<"7">>, <<"8">>, <<"9">>>>

\* the snippets of MergeFile a context search can produce
MergeSnippets ==
    {extractSnippet(MergeFile, m,
                    [ContextLines |-> c, EntireFunction |-> FALSE, FuzzySearch |-> FALSE]) :
        m \in 0..(Len(MergeFile) - 1), c \in 0..MaxMergeContext}

-----------------------------------------------------------------------------
(* The search as a state machine *)

SearchIdle ==
    /\ fileLines = <<>>
    /\ pattern = <<>>
    /\ opts = [ContextLines |-> 0, EntireFunction |-> FALSE, FuzzySearch |-> FALSE]
    /\ sstate = "idle"
    /\ candidates = <<>>
    /\ snippets = <<>>

SearchStart ==
    /\ sstate = "ready"
    /\ \E core \in SeqsUpTo(LineKinds, MaxCoreLines), pad \in Paddings :
          fileLines = Padding(pad[1]) \o core \o Padding(pad[2])
    /\ \E search \in Searches :
          /\ pattern = search[1]
          /\ opts \in {o \in SearchOptions : o.FuzzySearch = search[2]}
    /\ candidates = <<>>
    /\ snippets = <<>>

MergeStart ==
    /\ sstate = "unmerged"
    /\ fileLines = MergeFile
    /\ pattern = <<>>
    /\ opts = [ContextLines |-> 0, EntireFunction |-> FALSE, FuzzySearch |-> FALSE]
    /\ candidates \in SeqsUpTo(MergeSnippets, MaxSnips)
    /\ snippets = <<>>

\* one pass of the loop of SearchInFiles: the file is searched and, when it
\* has snippets, they are merged
SearchFile ==
    /\ sstate = "ready"
    /\ sstate' = "searched"
    /\ candidates' = searchInFile(fileLines, pattern, opts)
    /\ IF Len(candidates') > 0
       THEN snippets' \in mergeOverlappingSnippets(candidates')
       ELSE snippets' = <<>>
    /\ UNCHANGED <<fileLines, pattern, opts>>
    /\ UNCHANGED <<pvars, hvars, fvars, lvars, cvars, ovars, tvars>>

\* a call of mergeOverlappingSnippets(candidates)
MergeCall ==
    /\ sstate = "unmerged"
    /\ sstate' = "merged"
    /\ snippets' \in mergeOverlappingSnippets(candidates)
    /\ UNCHANGED <<fileLines, pattern, opts, candidates>>
    /\ UNCHANGED <<pvars, hvars, fvars, lvars, cvars, ovars, tvars>>

-----------------------------------------------------------------------------
(* Inputs of the header collection *)

LMethod ==
    <<"f", "u", "n", "c", " ", "(", "r", " ", "*", "R", "e", "p", "o", ")",
      " ", "S", "a", "v", "e", "(", "i", "d", " ", "i", "n", "t", ",", " ",
      "n", "a", "m", "e", " ", "s", "t", "r", "i", "n", "g", ")", " ", "(",
      "b", "o", "o", "l", ",", " ", "e", "r", "r", "o", "r", ")", " ", "{">>

LFunction ==
    <<"f", "u", "n", "c", " ", "L", "o", "a", "d", "(", "i", "d", " ", "i",
      "n", "t", ")", " ", "e", "r", "r", "o", "r", " ", "{">>

LStruct ==
    <<"t", "y", "p", "e", " ", "R", "e", "p", "o", " ", "s", "t", "r", "u",
      "c", "t", " ", "{">>

LField ==
    <<"\t", "d", "b", " ", "s", "t", "r", "i", "n", "g">>

LConst ==
    <<"c", "o", "n", "s", "t", " ", "M", "a", "x", " ", "i", "n", "t", " ",
      "=", " ", "5", " ", "/", "/", " ", "c", "a", "p">>

LVar ==
    <<"v", "a", "r", " ", "t", "o", "t", "a", "l", " ", "=", " ", "0">>

LImport ==
    <<"i", "m", "p", "o", "r", "t", " ", "(">>

LQuoted ==
    <<"\t", "\"", "o", "s", "\"">>

LParen ==
    <<")">>

LComment ==
    <<"/", "/", " ", "n", "o", "t", "e">>

LClass ==
    <<"c", "l", "a", "s", "s", " ", "F", "o", "o">>

\* a line both rules of defaultPatterns match
LClassDef ==
    <<"c", "l", "a", "s", "s", " ", "F", "o", "o", ":", " ", "d", "e", "f",
      " ", "b", "a", "r", "(", "s", "e", "l", "f", ")", ":", " ", "p", "a",
      "s", "s">>

\* the lines a file is put together from; LClose is the line }
HeaderLineKinds ==
    {LMethod, LFunction, LStruct, LField, LClose, LConst, LVar, LImport, LQuoted,
     LParen, LComment, LClass, LClassDef, <<>>}

LPyClass ==
    <<"c", "l", "a", "s", "s", " ", "R", "e", "p", "o", "(", "B", "a", "s",
      "e", ")", ":">>

LPyMethod ==
    <<" ", " ", " ", " ", "d", "e", "f", " ", "g", "e", "t", "(", "s", "e",
      "l", "f", ",", " ", "k", "e", "y", ")", ":">>

LPyDef ==
    <<"d", "e", "f", " ", "m", "a", "i", "n", "(", "a", ")", " ", "-", ">",
      " ", "i", "n", "t", ":">>

LPyBody ==
    <<" ", " ", " ", " ", "r", "e", "t", "u", "r", "n", " ", "k", "e", "y">>

LPyVar ==
    <<"M", "A", "X", " ", "=", " ", "1", "0">>

LPyFrom ==
    <<"f", "r", "o", "m", " ", "o", "s", " ", "i", "m", "p", "o", "r", "t",
      " ", "p", "a", "t", "h", " ", "a", "s", " ", "p", ",", " ", "s", "e",
      "p">>

\* the lines a Python file is put together from; LImport is the line import (
PythonLineKinds ==
    {LPyClass, LPyMethod, LPyDef, LPyBody, LPyVar, LPyFrom, LImport, LParen, <<>>}

LDefine ==
    <<"#", "d", "e", "f", "i", "n", "e", " ", "M", "A", "X", " ", "1", "0">>

LIndentedDefine ==
    <<" ", " ", "#", "d", "e", "f", "i", "n", "e", " ", "M", "I", "N", " ",
      "0">>

LCFunction ==
    <<"i", "n", "t", " ", "m", "a", "i", "n", "(", "v", "o", "i", "d", ")",
      " ", "{">>

LCStruct ==
    <<"s", "t", "r", "u", "c", "t", " ", "p", "o", "i", "n", "t", " ", "{">>

LCField ==
    <<" ", " ", " ", " ", "i", "n", "t", " ", "x", ";">>

\* the lines a C file is put together from
CLineKinds == {LDefine, LIndentedDefine, LCFunction, LCStruct, LCField, LClose}

\* three languages with a rule list of their own and one without
FileLanguages == {"go", "python", "c", "plaintext"}

\* the lines of the files of a language
LineKindsOf(lang) ==
    IF lang = "python" THEN PythonLineKinds
    ELSE IF lang = "c" THEN CLineKinds
    ELSE HeaderLineKinds

\* files of up to MaxHeaderLines lines, with and without a final newline
SourceFilesOf(lang) ==
    {Join(ls, NewLine) \o end :
        ls \in SeqsUpTo(LineKindsOf(lang), MaxHeaderLines), end \in {<<>>, NewLine}}

SourceFiles == SourceFilesOf("go")

\* a line of MaxScanTokenSize characters
LongLine == [i \in 1..MaxScanTokenSize |-> "x"]

\* files with a line that long: alone, and after a function line
LongLineFiles == {LongLine, LFunction \o NewLine \o LongLine \o NewLine}

-----------------------------------------------------------------------------
(* CollectHeaders as a state machine: one step for each line of the file *)

HeadersIdle ==
    /\ fileContents = <<>>
    /\ fileLanguage = "go"
    /\ fileReadable = TRUE
    /\ hstate = "idle"
    /\ lineNum = 0
    /\ headers = <<>>
    /\ inImportBlock = FALSE
    /\ currentBlock = <<>>
    /\ braceCount = 0
    /\ currentClass = <<>>

HeadersStart ==
    /\ fileLanguage \in FileLanguages
    /\ \/ /\ fileReadable = TRUE
          /\ fileContents \in SourceFilesOf(fileLanguage) \cup LongLineFiles
       \/ fileReadable = FALSE /\ fileContents = <<>>
    /\ hstate = "scanning"
    /\ lineNum = 0
    /\ headers = <<>>
    /\ inImportBlock = FALSE
    /\ currentBlock = <<>>
    /\ braceCount = 0
    /\ currentClass = <<>>

\* the loop variables take the values of st
StoreScan(st) ==
    /\ headers' = st.headers
    /\ inImportBlock' = st.inImportBlock
    /\ currentBlock' = st.currentBlock
    /\ braceCount' = st.braceCount
    /\ currentClass' = st.currentClass

\* os.Open or os.ReadFile fails: CollectHeaders returns nil and the error
ReadFail ==
    /\ hstate = "scanning"
    /\ ~fileReadable
    /\ hstate' = "failed"
    /\ headers' = <<>>
    /\ UNCHANGED <<fileContents, fileLanguage, fileReadable, lineNum, inImportBlock,
                   currentBlock, braceCount, currentClass>>
    /\ UNCHANGED <<pvars, svars, fvars, lvars, cvars, ovars, tvars>>

\* the next line does not fit the scanner's buffer: Scan returns false with
\* the error ErrTooLong, and CollectHeaders returns nil and the error
ScanFail ==
    /\ hstate = "scanning"
    /\ fileReadable
    /\ lineNum < Len(ScannerLines(fileContents))
    /\ Len(ScannerLines(fileContents)[lineNum + 1]) >= MaxScanTokenSize
    /\ hstate' = "failed"
    /\ headers' = <<>>
    /\ UNCHANGED <<fileContents, fileLanguage, fileReadable, lineNum, inImportBlock,
                   currentBlock, braceCount, currentClass>>
    /\ UNCHANGED <<pvars, svars, fvars, lvars, cvars, ovars, tvars>>

\* one pass of the loop for scanner.Scan()
ScanLine ==
    /\ hstate = "scanning"
    /\ fileReadable
    /\ lineNum < Len(ScannerLines(fileContents))
    /\ Len(ScannerLines(fileContents)[lineNum + 1]) < MaxScanTokenSize
    /\ lineNum' = lineNum + 1
    /\ StoreScan(ScanStep(ScanState(headers, inImportBlock, currentBlock, braceCount,
                                    currentClass),
                          ScannerLines(fileContents)[lineNum + 1], lineNum + 1,
                          fileLanguage, BlockLines(fileContents)))
    /\ UNCHANGED <<fileContents, fileLanguage, fileReadable, hstate>>
    /\ UNCHANGED <<pvars, svars, fvars, lvars, cvars, ovars, tvars>>

\* the scanner is at the end of the file: CollectHeaders returns headers
ReturnHeaders ==
    /\ hstate = "scanning"
    /\ fileReadable
    /\ lineNum = Len(ScannerLines(fileContents))
    /\ hstate' = "returned"
    /\ UNCHANGED <<fileContents, fileLanguage, fileReadable, lineNum, headers, inImportBlock,
                   currentBlock, braceCount, currentClass>>
    /\ UNCHANGED <<pvars, svars, fvars, lvars, cvars, ovars, tvars>>

-----------------------------------------------------------------------------
(* The formatting merge as a state machine: one call on one list *)

\* the file the formatting snippets are cut from: fifteen distinct lines
FormatFile == [i \in 1..15 |-> <<LowerCase[i]>>]

\* the snippet of FormatFile with the range start..end
FormatSnippet(start, end) ==
    formattingSnippet(start, end, Join(SubSeq(FormatFile, start, end), NewLine),
                      "go", "f.go")

\* every range up to line MaxFormatLine, and the two ranges of the scenario
FormatSnippets ==
    {FormatSnippet(r[1], r[2]) :
        r \in {q \in (1..MaxFormatLine) \X (1..MaxFormatLine) : q[1] <= q[2]}
              \cup {<<5, 10>>, <<9, 15>>}}

FormatIdle ==
    /\ fsnippets = <<>>
    /\ fmerged = <<>>
    /\ fstate = "idle"

FormatStart ==
    /\ fsnippets \in SeqsUpTo(FormatSnippets, MaxFormatSnips)
    /\ fmerged = <<>>
    /\ fstate = "unmerged"

\* a call of mergeFormattingSnippets(fsnippets)
FormatMerge ==
    /\ fstate = "unmerged"
    /\ fstate' = "merged"
    /\ fmerged' \in mergeFormattingSnippets(fsnippets)
    /\ UNCHANGED fsnippets
    /\ UNCHANGED <<pvars, svars, hvars, lvars, cvars, ovars, tvars>>

-----------------------------------------------------------------------------
(* SearchInFiles as a state machine: one step for each file of the list *)

PBZ == <<"B", "Z">>

PDot == <<".">>

PParen == <<"(">>

\* the patterns searched for: letters, a dot, an opening parenthesis
SearchPatterns == {PBaz, PBz, PBZ, PDot, PParen}

\* a file of the list: Readable says whether os.ReadFile succeeds
ListedFiles ==
    [Readable : {TRUE}, Lines : SeqsUpTo({LFoo, LBarBaz, LFuncF}, MaxFileLines)]
    \cup [Readable : {TRUE}, Lines : {<<LBarBaz, LongLine, LBarBaz>>}]
    \cup [Readable : {FALSE}, Lines : {<<>>}]

\* the expression searchInFile hands to regexp.Compile, without the flag
Expression(pat, o) == IF o.FuzzySearch THEN FuzzyPattern(pat) ELSE pat

\* a SearchFile; Path is the place of the file in the list
SearchFileOf(path, snips) == [Path |-> path, Snippets |-> snips]

FilesIdle ==
    /\ searchFiles = <<>>
    /\ searchPattern = <<>>
    /\ searchOpts = [ContextLines |-> 0, EntireFunction |-> FALSE, FuzzySearch |-> FALSE]
    /\ fileIndex = 0
    /\ lastMatches = <<>>
    /\ resultFiles = <<>>
    /\ searchErr = "nil"
    /\ lstate = "idle"

FilesStart ==
    /\ searchFiles \in SeqsUpTo(ListedFiles, MaxFiles)
    /\ searchPattern \in SearchPatterns
    /\ searchOpts \in [ContextLines : {0, 1}, EntireFunction : {FALSE}, FuzzySearch : BOOLEAN]
    /\ fileIndex = 0
    /\ lastMatches = <<>>
    /\ resultFiles = <<>>
    /\ searchErr = "nil"
    /\ lstate = "running"

\* a variant of FilesReadFail: the file that cannot be read is passed over
FilesReadSkip ==
    /\ lstate = "running"
    /\ fileIndex < Len(searchFiles)
    /\ ~searchFiles[fileIndex + 1].Readable
    /\ fileIndex' = fileIndex + 1
    /\ lastMatches' = <<>>
    /\ UNCHANGED <<searchFiles, searchPattern, searchOpts, resultFiles, searchErr,
                   lstate>>
    /\ UNCHANGED <<pvars, svars, hvars, fvars, cvars, ovars, tvars>>

\* os.ReadFile fails for the next file: SearchInFiles returns result and the
\* error
FilesReadFail ==
    /\ lstate = "running"
    /\ fileIndex < Len(searchFiles)
    /\ ~searchFiles[fileIndex + 1].Readable
    /\ lstate' = "failed"
    /\ searchErr' = "read"
    /\ UNCHANGED <<searchFiles, searchPattern, searchOpts, fileIndex, lastMatches,
                   resultFiles>>
    /\ UNCHANGED <<pvars, svars, hvars, fvars, cvars, ovars, tvars>>

\* the next file is read and regexp.Compile fails
FilesCompileFail ==
    /\ lstate = "running"
    /\ fileIndex < Len(searchFiles)
    /\ searchFiles[fileIndex + 1].Readable
    /\ ~Compiles(Expression(searchPattern, searchOpts))
    /\ lstate' = "failed"
    /\ searchErr' = "pattern"
    /\ UNCHANGED <<searchFiles, searchPattern, searchOpts, fileIndex, lastMatches,
                   resultFiles>>
    /\ UNCHANGED <<pvars, svars, hvars, fvars, cvars, ovars, tvars>>

\* the next file is searched; with snippets, it goes to the result, merged
FilesSearchOne ==
    /\ lstate = "running"
    /\ fileIndex < Len(searchFiles)
    /\ searchFiles[fileIndex + 1].Readable
    /\ Compiles(Expression(searchPattern, searchOpts))
    /\ fileIndex' = fileIndex + 1
    /\ lastMatches' = searchInFile(searchFiles[fileIndex + 1].Lines, searchPattern,
                                   searchOpts)
    /\ IF Len(lastMatches') > 0
       THEN \E merged \in mergeOverlappingSnippets(lastMatches') :
               resultFiles' = Append(resultFiles, SearchFileOf(fileIndex + 1, merged))
       ELSE resultFiles' = resultFiles
    /\ UNCHANGED <<searchFiles, searchPattern, searchOpts, searchErr, lstate>>
    /\ UNCHANGED <<pvars, svars, hvars, fvars, cvars, ovars, tvars>>

\* the list is done: SearchInFiles returns result and nil
FilesReturn ==
    /\ lstate = "running"
    /\ fileIndex = Len(searchFiles)
    /\ lstate' = "returned"
    /\ UNCHANGED <<searchFiles, searchPattern, searchOpts, fileIndex, lastMatches,
                   resultFiles, searchErr>>
    /\ UNCHANGED <<pvars, svars, hvars, fvars, cvars, ovars, tvars>>

-----------------------------------------------------------------------------
(* FormatSearchResults on the result of SearchInFiles (formatter.go,
   finder.go) *)

\* strings.ToLower on letters of the alphabet above
ToLower(str) ==
    [i \in 1..Len(str) |->
        IF \E k \in 1..26 : UpperCase[k] = str[i]
        THEN LowerCase[CHOOSE k \in 1..26 : UpperCase[k] = str[i]]
        ELSE str[i]]

\* filepath.Ext: the suffix from the last dot of the last path element
Ext(path) ==
    LET dots == {i \in 1..Len(path) :
                   /\ path[i] = "."
                   /\ \A j \in i..Len(path) : path[j] # "/"}
    IN  IF dots = {} THEN <<>>
        ELSE SubSeq(path, CHOOSE i \in dots : \A j \in dots : j <= i, Len(path))

\* DetectLanguage
DetectLanguage(path) ==
    LET ext == ToLower(Ext(path))
    IN  CASE ext = <<".", "g", "o">> -> <<"g", "o">>
          [] ext = <<".", "j", "s">> -> <<"j", "a", "v", "a", "s", "c", "r", "i", "p", "t">>
          [] ext = <<".", "t", "s">> -> <<"t", "y", "p", "e", "s", "c", "r", "i", "p", "t">>
          [] ext = <<".", "p", "y">> -> <<"p", "y", "t", "h", "o", "n">>
          [] ext = <<".", "j", "a", "v", "a">> -> <<"j", "a", "v", "a">>
          [] ext \in {<<".", "c">>, <<".", "h">>} -> <<"c">>
          [] ext \in {<<".", "c", "p", "p">>, <<".", "h", "p", "p">>} -> <<"c", "p", "p">>
          [] ext = <<".", "c", "s">> -> <<"c", "s", "h", "a", "r", "p">>
          [] ext = <<".", "r", "b">> -> <<"r", "u", "b", "y">>
          [] ext = <<".", "p", "h", "p">> -> <<"p", "h", "p">>
          [] ext = <<".", "p", "l">> -> <<"p", "e", "r", "l">>
          [] ext = <<".", "s", "h">> -> <<"b", "a", "s", "h">>
          [] ext = <<".", "h", "t", "m", "l">> -> <<"h", "t", "m", "l">>
          [] ext = <<".", "c", "s", "s">> -> <<"c", "s", "s">>
          [] ext = <<".", "m", "d">> -> <<"m", "a", "r", "k", "d", "o", "w", "n">>
          [] ext = <<".", "j", "s", "o", "n">> -> <<"j", "s", "o", "n">>
          [] ext \in {<<".", "y", "a", "m", "l">>, <<".", "y", "m", "l">>} -> <<"y", "a", "m", "l">>
          [] OTHER -> <<"p", "l", "a", "i", "n", "t", "e", "x", "t">>

\* the path of the file at each place of the list: the walk of
\* FindFilesByGlob gives every path once
FilePaths == <<<<"a", ".", "g", "o">>, <<"b", ".", "P", "Y">>>>

DigitChars == <<"0", "1", "2", "3", "4", "5", "6", "7", "8", "9">>

RECURSIVE Itoa(_)
\* %d of a number that is not negative
Itoa(n) ==
    IF n < 10 THEN <<DigitChars[n + 1]>>
    ELSE Itoa(n \div 10) \o <<DigitChars[(n % 10) + 1]>>

\* the character U+0060, which a string of this language cannot hold
Backtick == "U+0060"

Fence == <<Backtick, Backtick, Backtick>>

\* what FormatSearchResults writes for one snippet
SnippetText(snippet) ==
    Fence \o snippet.Language \o <<" ", "f", "i", "l", "e", "n", "a", "m", "e", "=">> \o snippet.Path
        \o <<" ", "(", "l", "i", "n", "e", "s", " ">> \o Itoa(snippet.StartLine) \o <<"-">> \o Itoa(snippet.EndLine)
        \o <<")">> \o NewLine \o snippet.Content \o NewLine \o Fence \o NewLine \o NewLine

RECURSIVE SnippetsText(_)
\* the text of one list of merged snippets
SnippetsText(merged) ==
    IF merged = <<>> THEN <<>>
    ELSE SnippetText(Head(merged)) \o SnippetsText(Tail(merged))

RECURSIVE FilesText(_)
\* the text of the merged snippet lists, in the order given
FilesText(lists) ==
    IF lists = <<>> THEN <<>>
    ELSE SnippetsText(Head(lists)) \o FilesText(Tail(lists))

RECURSIVE FileSnippetsOf(_, _)
\* fileSnippets[path]: the snippets of every entry of files with this Path
FileSnippetsOf(files, path) ==
    IF files = <<>> THEN <<>>
    ELSE (IF Head(files).Path = path
          THEN [i \in 1..Len(Head(files).Snippets) |->
                   LET snippet == Head(files).Snippets[i]
                   IN  formattingSnippet(snippet.StartLine, snippet.EndLine,
                                         snippet.Content,
                                         DetectLanguage(FilePaths[path]),
                                         FilePaths[path])]
          ELSE <<>>) \o FileSnippetsOf(Tail(files), path)

\* the keys of fileSnippets
FileKeys(files) == {files[i].Path : i \in 1..Len(files)}

\* every order the loop over the map may visit the keys in
KeyOrders(keys) ==
    {order \in [1..Cardinality(keys) -> keys] :
        \A i, j \in 1..Cardinality(keys) : i # j => order[i] # order[j]}

\* files with matching lines too far apart for the first pass to merge
SpreadFiles ==
    [Readable : {TRUE},
     Lines : {<<LBarBaz, LFoo, LFoo, LFoo, LBarBaz>>,
              <<LBarBaz, <<>>, <<>>, <<>>, <<>>, <<>>, LBarBaz>>}]

\* the files of a search that is formatted: lines the scanner can hold
PipelineFiles ==
    {f \in ListedFiles : \A k \in 1..Len(f.Lines) : Len(f.Lines[k]) < MaxScanTokenSize}
        \cup SpreadFiles

PipelineStart ==
    /\ searchFiles \in SeqsUpTo(PipelineFiles, MaxFiles)
    /\ searchPattern \in SearchPatterns
    /\ searchOpts \in [ContextLines : {0, 1}, EntireFunction : BOOLEAN, FuzzySearch : BOOLEAN]
    /\ fileIndex = 0
    /\ lastMatches = <<>>
    /\ resultFiles = <<>>
    /\ searchErr = "nil"
    /\ lstate = "running"

OutputIdle ==
    /\ outOrder = <<>>
    /\ outSnippets = <<>>
    /\ outText = <<>>
    /\ ostate = "idle"

\* FormatSearchResults(resultFiles), once SearchInFiles has returned nil
FormatSearchResults ==
    /\ lstate = "returned"
    /\ ostate = "idle"
    /\ ostate' = "formatted"
    /\ outOrder' \in KeyOrders(FileKeys(resultFiles))
    /\ outSnippets' \in [1..Len(outOrder') -> UNION {mergeFormattingSnippets(
                              FileSnippetsOf(resultFiles, path)) :
                                  path \in FileKeys(resultFiles)}]
    /\ \A i \in 1..Len(outOrder') :
          outSnippets'[i] \in mergeFormattingSnippets(
                                  FileSnippetsOf(resultFiles, outOrder'[i]))
    /\ outText' = FilesText(outSnippets')
    /\ UNCHANGED <<pvars, svars, hvars, fvars, lvars, cvars, tvars>>

-----------------------------------------------------------------------------
(* The template parser (internal/template) *)

\* p.BasePath: the default of --path
BasePath == <<".">>

PathA == <<"a">>

PathB == <<"b">>

\* fullPath of resolveFile
FullPath(filePath) ==
    IF HasPrefix(filePath, <<"/">>) THEN filePath
    ELSE BasePath \o <<"/">> \o filePath

\* what is at a path: a file with its content, nothing, or a file that
\* cannot be read
FileAt(fs, path) ==
    IF path \in DOMAIN fs THEN fs[path]
    ELSE [Status |-> "missing", Content |-> <<>>]

\* the text of the error of os.ReadFile on a file that cannot be read
DeniedText(path) == <<"o", "p", "e", "n", " ">> \o path \o <<":", " ", "p", "e", "r", "m", "i", "s", "s", "i", "o", "n", " ", "d",
      "e", "n", "i", "e", "d">>

\* the result of a resolution: the text and the error
Resolved(text) == [Text |-> text, Failed |-> FALSE, ErrText |-> <<>>]

ResolveError(text) == [Text |-> <<>>, Failed |-> TRUE, ErrText |-> text]

\* Parser.resolveFile
resolveFile(fs, filePath) ==
    LET found == FileAt(fs, FullPath(filePath))
    IN  CASE found.Status = "missing" -> Resolved(<<>>)
          [] found.Status = "denied" -> ResolveError(DeniedText(FullPath(filePath)))
          [] OTHER -> Resolved(Fence \o DetectLanguage(filePath) \o NewLine
                                   \o found.Content \o NewLine \o Fence)

\* the paths FindFilesByGlob(BasePath, pattern) returns, in the order of the
\* walk, for the pattern * : every file of the base directory
GlobbedPaths(fs, glob) ==
    IF glob = <<"*">>
    THEN SelectSeq(<<PathA, PathB>>,
                   LAMBDA path : FileAt(fs, FullPath(path)).Status # "missing")
    ELSE <<>>

RECURSIVE FormatFiles(_, _)
\* FormatFiles on the files ReadFiles has read
FormatFiles(fs, paths) ==
    IF paths = <<>> THEN <<>>
    ELSE Fence \o DetectLanguage(Head(paths)) \o <<" ", "f", "i", "l", "e", "n", "a", "m", "e", "=">> \o Head(paths) \o NewLine
             \o FileAt(fs, FullPath(Head(paths))).Content \o NewLine \o Fence
             \o NewLine \o NewLine \o FormatFiles(fs, Tail(paths))

\* Parser.resolveGlob
resolveGlob(fs, glob) ==
    LET files == GlobbedPaths(fs, glob)
        denied == SelectSeq(files,
                            LAMBDA path : FileAt(fs, FullPath(path)).Status = "denied")
    IN  IF Len(files) = 0 THEN Resolved(<<>>)
        ELSE IF denied # <<>> THEN ResolveError(DeniedText(Head(denied)))
        ELSE Resolved(FormatFiles(fs, files))

\* Parser.resolveTag
resolveTag(fs, tag) ==
    IF Contains(tag, <<"*">>) THEN resolveGlob(fs, tag) ELSE resolveFile(fs, tag)

\* the match of {{([^}]+)}} that starts at place i of the line, in a
\* sequence; <<>> when there is none
TagAt(line, i) ==
    IF i + 1 <= Len(line) /\ line[i] = "{" /\ line[i + 1] = "{"
    THEN LET closers == {j \in (i + 2)..Len(line) : line[j] = "}"}
             stop == IF closers = {} THEN Len(line) + 1 ELSE SetMin(closers)
         IN  IF stop > i + 2 /\ stop + 1 <= Len(line) /\ line[stop + 1] = "}"
             THEN <<[Start |-> i, Full |-> SubSeq(line, i, stop + 1),
                     Content |-> SubSeq(line, i + 2, stop - 1)]>>
             ELSE <<>>
    ELSE <<>>

RECURSIVE FindAllTags(_, _)
\* tagPattern.FindAllStringSubmatch(line, -1), from place i on
FindAllTags(line, i) ==
    IF i > Len(line) THEN <<>>
    ELSE IF TagAt(line, i) # <<>>
    THEN TagAt(line, i) \o FindAllTags(line, i + Len(TagAt(line, i)[1].Full))
    ELSE FindAllTags(line, i + 1)

\* strings.Replace(str, old, new, 1)
ReplaceFirst(str, old, new) ==
    IF Index(str, old) < 0 THEN str
    ELSE SubSeq(str, 1, Index(str, old)) \o new
             \o SubSeq(str, Index(str, old) + Len(old) + 1, Len(str))

\* the replacement of a tag: its resolution, or the comment
Replacement(fs, content) ==
    LET tag == TrimSpace(content)
        resolution == resolveTag(fs, tag)
    IN  IF resolution.Failed
        THEN <<"<", "!", "-", "-", " ", "F", "a", "i", "l", "e", "d", " ", "t", "o",
      " ", "r", "e", "s", "o", "l", "v", "e", " ">> \o tag \o <<":", " ">> \o resolution.ErrText \o <<" ", "-", "-", ">">>
        ELSE resolution.Text

RECURSIVE ReplaceTags(_, _, _, _)
\* the loop over the matches of a line
ReplaceTags(fs, line, matches, processedLine) ==
    IF matches = <<>> THEN processedLine
    ELSE ReplaceTags(fs, line, Tail(matches),
                     IF Head(matches).Full = line
                     THEN Replacement(fs, Head(matches).Content)
                     ELSE ReplaceFirst(processedLine, Head(matches).Full,
                                       Replacement(fs, Head(matches).Content)))

\* a text as it is written to result: with a newline unless it ends in one
WithNewLine(text) == IF HasSuffix(text, NewLine) THEN text ELSE text \o NewLine

\* what ProcessReader writes to result for one line
ProcessLine(fs, line) ==
    IF FindAllTags(line, 1) = <<>> THEN line \o NewLine
    ELSE WithNewLine(ReplaceTags(fs, line, FindAllTags(line, 1), line))

RECURSIVE Flatten(_)
\* the texts of a sequence, one after the other
Flatten(texts) ==
    IF texts = <<>> THEN <<>> ELSE Head(texts) \o Flatten(Tail(texts))

\* the pieces the lines of the templates are made of
TemplateTokens == {<<"{", "{", "a", "}", "}">>, <<"{", "{", "b", "}", "}">>, <<"{", "{", " ", "b", " ", "}", "}">>, <<"{", "{", "*", "}", "}">>, <<"x">>}

TemplateLines == {Flatten(tokens) : tokens \in SeqsUpTo(TemplateTokens, MaxLineTokens)}

Templates ==
    SeqsUpTo(TemplateLines, MaxTemplateLines) \cup {<<<<"{", "{", "b", "}", "}">>, LongLine>>}

\* the files a and b of the base directory
FileStates ==
    [Status : {"file"}, Content : {<<"x">>, <<"{", "{", "b", "}", "}">>}]
        \cup [Status : {"missing", "denied"}, Content : {<<>>}]

FileSystems == [{FullPath(PathA), FullPath(PathB)} -> FileStates]

TemplateIdle ==
    /\ template = <<>>
    /\ fileSystem = <<>>
    /\ lineIndex = 0
    /\ processed = <<>>
    /\ templateResult = <<>>
    /\ templateErr = "nil"
    /\ tstate = "idle"

TemplateStart ==
    /\ template \in Templates
    /\ fileSystem \in FileSystems
    /\ lineIndex = 0
    /\ processed = <<>>
    /\ templateResult = <<>>
    /\ templateErr = "nil"
    /\ tstate = "scanning"

\* the scanner yields the next line and the loop body runs on it
TemplateLine ==
    /\ tstate = "scanning"
    /\ lineIndex < Len(template)
    /\ Len(template[lineIndex + 1]) < MaxScanTokenSize
    /\ lineIndex' = lineIndex + 1
    /\ processed' = Append(processed, ProcessLine(fileSystem, template[lineIndex + 1]))
    /\ UNCHANGED <<template, fileSystem, templateResult, templateErr, tstate>>
    /\ UNCHANGED <<pvars, svars, hvars, fvars, lvars, cvars, ovars>>

\* the scanner cannot hold the next line: ProcessReader returns "" and the
\* error
TemplateTooLong ==
    /\ tstate = "scanning"
    /\ lineIndex < Len(template)
    /\ Len(template[lineIndex + 1]) >= MaxScanTokenSize
    /\ tstate' = "failed"
    /\ templateErr' = "read"
    /\ UNCHANGED <<template, fileSystem, lineIndex, processed, templateResult>>
    /\ UNCHANGED <<pvars, svars, hvars, fvars, lvars, cvars, ovars>>

\* the template is read: ProcessReader returns result.String() and nil
TemplateReturn ==
    /\ tstate = "scanning"
    /\ lineIndex = Len(template)
    /\ tstate' = "done"
    /\ templateResult' = Flatten(processed)
    /\ UNCHANGED <<template, fileSystem, lineIndex, processed, templateErr>>
    /\ UNCHANGED <<pvars, svars, hvars, fvars, lvars, cvars, ovars>>

-----------------------------------------------------------------------------
(* The commands (cmd/search.go, cmd/glob.go, cmd/template.go), from the
   formatted text on; formatter.go for the statistics *)

\* CalculateStats(content).EstimatedTokens
EstimatedTokens(content) == (Len(content) + 3) \div 4

\* a text of n characters
TextOfLength(n) == [i \in 1..n |-> "x"]

CommandsIdle ==
    /\ command = "search"
    /\ formatted = <<>>
    /\ maxTokens = 0
    /\ targetOk = TRUE
    /\ written = <<>>
    /\ cmdErr = "nil"
    /\ cstate = "idle"

CommandsStart ==
    /\ command \in {"search", "glob", "template"}
    /\ formatted \in {TextOfLength(n) : n \in 0..MaxChars}
    /\ maxTokens \in 0..MaxTokenLimit
    /\ targetOk \in BOOLEAN
    /\ written = <<>>
    /\ cmdErr = "nil"
    /\ cstate = "ready"

\* CopyToTarget and what RunE does with its error
CopyToTarget ==
    /\ written' = IF targetOk THEN <<formatted>> ELSE <<>>
    /\ cmdErr' = IF targetOk THEN "nil" ELSE "copy"

\* the token check of the search and template commands, then CopyToTarget
CheckedCopy ==
    IF maxTokens > 0 /\ EstimatedTokens(formatted) > maxTokens
    THEN written' = <<>> /\ cmdErr' = "limit"
    ELSE CopyToTarget

\* searchCmd.RunE once FormatSearchResults has returned
RunSearch ==
    /\ cstate = "ready"
    /\ command = "search"
    /\ CheckedCopy
    /\ cstate' = "done"
    /\ UNCHANGED <<command, formatted, maxTokens, targetOk>>
    /\ UNCHANGED <<pvars, svars, hvars, fvars, lvars, ovars, tvars>>

\* templateCmd.RunE once parser.Process has returned
RunTemplate ==
    /\ cstate = "ready"
    /\ command = "template"
    /\ CheckedCopy
    /\ cstate' = "done"
    /\ UNCHANGED <<command, formatted, maxTokens, targetOk>>
    /\ UNCHANGED <<pvars, svars, hvars, fvars, lvars, ovars, tvars>>

\* globCmd.RunE once FormatFiles has returned: no token check
RunGlob ==
    /\ cstate = "ready"
    /\ command = "glob"
    /\ CopyToTarget
    /\ cstate' = "done"
    /\ UNCHANGED <<command, formatted, maxTokens, targetOk>>
    /\ UNCHANGED <<pvars, svars, hvars, fvars, lvars, ovars, tvars>>

-----------------------------------------------------------------------------
(* Specifications *)

ParseInit == ParseStart /\ SearchIdle /\ HeadersIdle /\ FormatIdle /\ FilesIdle /\ CommandsIdle /\ OutputIdle /\ TemplateIdle

ParseNext == SplitParams \/ ParseParameters \/ ParseReturns

\* the parser called once on one input
SpecParse == ParseInit /\ [][ParseNext]_vars

SearchInit == ParseIdle /\ SearchStart /\ HeadersIdle /\ FormatIdle /\ FilesIdle /\ CommandsIdle /\ OutputIdle /\ TemplateIdle

SearchNext == SearchFile

\* one file searched with one pattern and one set of options
SpecSearch == SearchInit /\ [][SearchNext]_vars

MergeInit == ParseIdle /\ MergeStart /\ HeadersIdle /\ FormatIdle /\ FilesIdle /\ CommandsIdle /\ OutputIdle /\ TemplateIdle

MergeNext == MergeCall

\* the merge called once on one list of snippets
SpecMerge == MergeInit /\ [][MergeNext]_vars

HeadersInit == ParseIdle /\ SearchIdle /\ HeadersStart /\ FormatIdle /\ FilesIdle /\ CommandsIdle /\ OutputIdle /\ TemplateIdle

HeadersNext == ReadFail \/ ScanLine \/ ScanFail \/ ReturnHeaders

\* CollectHeaders called once on one file
SpecHeaders == HeadersInit /\ [][HeadersNext]_vars

FormatInit == ParseIdle /\ SearchIdle /\ HeadersIdle /\ FormatStart /\ FilesIdle /\ CommandsIdle /\ OutputIdle /\ TemplateIdle

FormatNext == FormatMerge

\* mergeFormattingSnippets called once on one list of snippets
SpecFormat == FormatInit /\ [][FormatNext]_vars

FilesInit == ParseIdle /\ SearchIdle /\ HeadersIdle /\ FormatIdle /\ FilesStart /\ CommandsIdle /\ OutputIdle /\ TemplateIdle

FilesNext == FilesReadFail \/ FilesCompileFail \/ FilesSearchOne \/ FilesReturn

\* SearchInFiles on a list of files
SpecFiles == FilesInit /\ [][FilesNext]_vars

\* CollectHeaders on a C file, or SearchInFiles on a list
FileErrorsInit == (HeadersInit /\ fileLanguage = "c") \/ FilesInit

FileErrorsNext == HeadersNext \/ FilesNext

\* the two operations that read files: CollectHeaders on one file, or
\* SearchInFiles on a list
SpecFileErrors == FileErrorsInit /\ [][FileErrorsNext]_vars

CommandsInit ==
    ParseIdle /\ SearchIdle /\ HeadersIdle /\ FormatIdle /\ FilesIdle /\ CommandsStart
        /\ OutputIdle /\ TemplateIdle

CommandsNext == RunSearch \/ RunGlob \/ RunTemplate

\* one run of a command
SpecCommands == CommandsInit /\ [][CommandsNext]_vars

PipelineInit ==
    ParseIdle /\ SearchIdle /\ HeadersIdle /\ FormatIdle /\ PipelineStart
        /\ CommandsIdle /\ OutputIdle /\ TemplateIdle

PipelineNext == FilesNext \/ FormatSearchResults

\* SearchInFiles, then FormatSearchResults on its result
SpecPipeline == PipelineInit /\ [][PipelineNext]_vars

TemplateInit ==
    ParseIdle /\ SearchIdle /\ HeadersIdle /\ FormatIdle /\ FilesIdle
        /\ CommandsIdle /\ OutputIdle /\ TemplateStart

TemplateNext == TemplateLine \/ TemplateTooLong \/ TemplateReturn

\* Parser.ProcessReader on one template
SpecTemplate == TemplateInit /\ [][TemplateNext]_vars

-----------------------------------------------------------------------------
(* Claims *)

\* C1: a Go file holding the line
\*   func (r *Repo) Save(id int, name string) (bool, error) {
\* gets for that line one header, of Type Method, Name Save, Parent Repo,
\* Parameters [{id,int},{name,string}] and ReturnTypes ["bool","error"].
C1_GoMethodHeader ==
    fileLanguage = "go" =>
        \A n \in 1..lineNum :
            ScannerLines(fileContents)[n] = LMethod =>
                \E i \in 1..Len(headers) :
                    /\ \A j \in 1..Len(headers) : headers[j].LineNum = n <=> j = i
                    /\ headers[i].Type = "Method"
                    /\ headers[i].Name = <<"S", "a", "v", "e">>
                    /\ headers[i].Parent = <<"R", "e", "p", "o">>
                    /\ headers[i].Parameters =
                          <<ParameterInfo(<<"i", "d">>, TInt),
                            ParameterInfo(<<"n", "a", "m", "e">>, TString)>>
                    /\ headers[i].ReturnTypes = <<<<"b", "o", "o", "l">>, TError>>

\* the pieces of s between the positions in cuts, in order, empty ones included
CutAt(s, cuts) ==
    LET n == Cardinality(cuts)
        pos(k) == IF k = 0 THEN 0
                  ELSE IF k = n + 1 THEN Len(s) + 1
                  ELSE CHOOSE p \in cuts : Cardinality({q \in cuts : q < p}) = k - 1
    IN  [k \in 1..(n + 1) |-> SubSeq(s, pos(k - 1) + 1, pos(k) - 1)]

CloserOf(c) ==
    CASE c = "<" -> ">" [] c = "(" -> ")" [] c = "[" -> "]" [] c = "{" -> "}"

RECURSIVE WellBracketedFrom(_, _, _)
WellBracketedFrom(t, i, stack) ==
    IF i > Len(t) THEN stack = <<>>
    ELSE IF t[i] \in Openers THEN WellBracketedFrom(t, i + 1, <<t[i]>> \o stack)
    ELSE IF t[i] \in Closers
         THEN /\ stack # <<>>
              /\ CloserOf(stack[1]) = t[i]
              /\ WellBracketedFrom(t, i + 1, Tail(stack))
    ELSE WellBracketedFrom(t, i + 1, stack)

\* positions j < k of s hold an opening bracket and the closing bracket paired with it
IsBracketPair(s, j, k) ==
    /\ j < k
    /\ s[j] \in Openers
    /\ s[k] = CloserOf(s[j])
    /\ WellBracketedFrom(SubSeq(s, j + 1, k - 1), 1, <<>>)

\* the commas of s that no bracket pair encloses
OutsideCommas(s) ==
    {i \in 1..Len(s) :
        /\ s[i] = ","
        /\ ~\E j \in 1..(i - 1), k \in (i + 1)..Len(s) : IsBracketPair(s, j, k)}

\* s cut at its outside commas; as in the code, text ending at a cut has no last group
ExpectedGroups(s) ==
    LET pieces == CutAt(s, OutsideCommas(s))
    IN  IF pieces[Len(pieces)] = <<>> THEN SubSeq(pieces, 1, Len(pieces) - 1) ELSE pieces

\* C2: in Go mode, names joined by commas and followed by one shared type
\* ("a, b int") give one parameter per name, each with that type, in order.
C2_SharedTypeParams ==
    (pstate = "params" /\ language = "go" /\ built.kind = "shared") =>
        params = [i \in 1..Len(built.names) |-> ParameterInfo(built.names[i], built.type)]

\* C3: in Go mode, comma-separated "name type" groups give one parameter
\* {name, type} per group, in the order written.
C3_NameTypeGroups ==
    (pstate = "params" /\ language = "go" /\ built.kind = "pairs") => params = built.pairs

C3_Witness ==
    /\ pstate = "params"
    /\ language = "go"
    /\ built.kind = "pairs"
    /\ input = <<"x", " ", "i", "n", "t", ",", " ", "y", " ", "s", "t", "r", "i", "n", "g">>
    /\ params = <<ParameterInfo(<<"x">>, TInt), ParameterInfo(<<"y">>, TString)>>

\* C4: parseReturnTypes gives the empty sequence for empty or blank text; in
\* Go mode a text that starts with "(" and ends with ")" gives the trimmed
\* pieces between the commas of what the parentheses hold, and any other text
\* gives the trimmed text alone; every other language gives the trimmed text
\* alone.
C4_ReturnTypes ==
    pstate = "returns" =>
        LET t == TrimSpace(input)
            wrapped == Len(t) >= 2 /\ t[1] = "(" /\ t[Len(t)] = ")"
            inner == SubSeq(t, 2, Len(t) - 1)
            pieces == CutAt(inner, {i \in 1..Len(inner) : inner[i] = ","})
        IN  /\ t = <<>> => returns = <<>>
            /\ (t # <<>> /\ language = "go" /\ wrapped) =>
                  returns = [i \in 1..Len(pieces) |-> TrimSpace(pieces[i])]
            /\ (t # <<>> /\ language = "go" /\ ~wrapped) => returns = <<t>>
            /\ (t # <<>> /\ language # "go") => returns = <<t>>

C4_Witness ==
    /\ pstate = "returns"
    /\ language = "go"
    /\ input = ReturnPair
    /\ returns = <<TInt, TError>>

\* C5: the splitter cuts the text at every comma outside all bracket pairs
\* and at no comma inside one.
C5_SplitAtOutsideCommas == pstate = "split" => groups = ExpectedGroups(input)

\* the k-th smallest element of a set of numbers
Kth(S, k) == CHOOSE x \in S : Cardinality({y \in S : y < x}) = k - 1

\* the 1-indexed lines of the searched file that match the pattern
MatchingLines ==
    {i \in 1..Len(fileLines) : MatchString(pattern, opts.FuzzySearch, fileLines[i])}

RECURSIVE BraceDepth(_, _, _)
\* opening minus closing braces on the 1-indexed lines from..to
BraceDepth(lines, from, to) ==
    IF from > to THEN 0
    ELSE Count(lines[from], "{") - Count(lines[from], "}") + BraceDepth(lines, from + 1, to)

\* C6: in context mode with contextLines = c >= 0 on a file of N lines, the
\* snippet of a match on line m has StartLine = max(1, m - c), EndLine =
\* min(N, m + c) and, as Content, exactly those lines joined by newlines.
C6_ContextWindow ==
    (sstate = "searched" /\ ~opts.EntireFunction) =>
        /\ Len(candidates) = Cardinality(MatchingLines)
        /\ \A k \in 1..Len(candidates) :
              LET m == Kth(MatchingLines, k)
                  s == Max(1, m - opts.ContextLines)
                  e == Min(Len(fileLines), m + opts.ContextLines)
              IN  /\ candidates[k].StartLine = s
                  /\ candidates[k].EndLine = e
                  /\ candidates[k].Content = Join(SubSeq(fileLines, s, e), NewLine)

\* the scenario: lines foo, bar baz, qux searched for baz with one line of
\* context give one snippet, lines 1 to 3, holding the three lines
C6_Witness ==
    /\ sstate = "searched"
    /\ fileLines = <<LFoo, LBarBaz, LQux>>
    /\ pattern = PBaz
    /\ opts = [ContextLines |-> 1, EntireFunction |-> FALSE, FuzzySearch |-> FALSE]
    /\ Len(snippets) = 1
    /\ snippets[1].StartLine = 1
    /\ snippets[1].EndLine = 3
    /\ snippets[1].Content = <<"f", "o", "o", "\n", "b", "a", "r", " ", "b", "a", "z", "\n", "q", "u", "x">>

\* C7, as stated: in whole-function mode the snippet starts at the nearest
\* line at or above the match that contains "func " or "function ", and ends
\* at the first line after the match where the brace depth counted from the
\* start line is zero, or, when there is none, at start + 20 clamped to the
\* last line.
C7_AsStated ==
    (sstate = "searched" /\ opts.EntireFunction) =>
        /\ Len(candidates) = Cardinality(MatchingLines)
        /\ \A k \in 1..Len(candidates) :
              LET m == Kth(MatchingLines, k)
                  s == candidates[k].StartLine
                  above == {j \in 1..m : HasFuncKeyword(fileLines[j])}
                  closing == {e \in (m + 1)..Len(fileLines) : BraceDepth(fileLines, s, e) = 0}
              IN  /\ s \in above
                  /\ \A j \in above : j <= s
                  /\ candidates[k].EndLine =
                        IF closing = {} THEN Min(Len(fileLines), s + 20)
                        ELSE SetMin(closing)

\* C7, amended: the snippet starts at the nearest line at or above the match
\* that contains "func " or "function ", or at line 1 when there is none, and
\* ends at the first line after the match where the brace depth counted from
\* the start line is zero or less, or, when there is none, at start + 20
\* clamped to the last line.
C7_FunctionBounds ==
    (sstate = "searched" /\ opts.EntireFunction) =>
        /\ Len(candidates) = Cardinality(MatchingLines)
        /\ \A k \in 1..Len(candidates) :
              LET m == Kth(MatchingLines, k)
                  above == {j \in 1..m : HasFuncKeyword(fileLines[j])}
                  s == IF above = {} THEN 1 ELSE SetMax(above)
                  closing == {e \in (m + 1)..Len(fileLines) : BraceDepth(fileLines, s, e) <= 0}
              IN  /\ candidates[k].StartLine = s
                  /\ candidates[k].EndLine =
                        IF closing = {} THEN Min(Len(fileLines), s + 20)
                        ELSE SetMin(closing)

\* a function of three lines below a run of plain lines, matched in its body
C7_Witness ==
    /\ sstate = "searched"
    /\ opts.EntireFunction
    /\ fileLines = Padding(PadLines) \o <<LFuncF, LBarBaz, LClose>>
    /\ pattern = PBaz
    /\ Len(candidates) = 1
    /\ candidates[1].StartLine = PadLines + 1
    /\ candidates[1].EndLine = PadLines + 3
    /\ candidates[1].MatchInfo = FunctionAt(PadLines + 2)

\* C8: every snippet holds its matching line: StartLine <= m <= EndLine for
\* a match on line m, in context mode and in whole-function mode.
C8_SnippetContainsMatch ==
    sstate = "searched" =>
        /\ Len(candidates) = Cardinality(MatchingLines)
        /\ \A k \in 1..Len(candidates) :
              /\ candidates[k].StartLine <= Kth(MatchingLines, k)
              /\ Kth(MatchingLines, k) <= candidates[k].EndLine

\* the input snippets whose range lies inside the range of the output snippet o
CoveredBy(o) ==
    {i \in 1..Len(candidates) :
        o.StartLine <= candidates[i].StartLine /\ candidates[i].EndLine <= o.EndLine}

\* C9: a candidate is merged into the snippet accepted before it exactly
\* when its StartLine <= that snippet's EndLine + 3, the EndLine becoming the
\* larger of the two; so the output is sorted by strictly increasing
\* StartLine, each output snippet starts more than 3 lines after the end of
\* the one before, and each output snippet spans a chain of input snippets
\* that each start no more than 3 lines after the end of an earlier one.
C9_MergeWithinBuffer ==
    sstate = "merged" =>
        /\ \A k \in 1..(Len(snippets) - 1) :
              /\ snippets[k].StartLine < snippets[k + 1].StartLine
              /\ snippets[k + 1].StartLine > snippets[k].EndLine + 3
        /\ \A i \in 1..Len(candidates) : \E k \in 1..Len(snippets) : i \in CoveredBy(snippets[k])
        /\ \A k \in 1..Len(snippets) :
              LET o == snippets[k]
                  in == CoveredBy(o)
              IN  /\ in # {}
                  /\ o.StartLine = SetMin({candidates[i].StartLine : i \in in})
                  /\ o.EndLine = SetMax({candidates[i].EndLine : i \in in})
                  /\ \A i \in in :
                        candidates[i].StartLine > o.StartLine =>
                            \E j \in in :
                                /\ candidates[j].StartLine < candidates[i].StartLine
                                /\ candidates[i].StartLine <= candidates[j].EndLine + 3

\* three snippets given out of order, two of them merged across a gap
C9_Witness ==
    /\ sstate = "merged"
    /\ Len(candidates) = 3
    /\ candidates[1].StartLine > candidates[2].StartLine
    /\ Len(snippets) = 2
    /\ \E i, j \in 1..3 :
          /\ candidates[i].EndLine + 1 < candidates[j].StartLine
          /\ {i, j} \subseteq CoveredBy(snippets[1])

\* C10: the merge applied to its own output returns that output unchanged.
C10_MergeIdempotent ==
    sstate = "merged" => mergeOverlappingSnippets(snippets) = {snippets}

\* an output of two snippets, one of them the result of a merge
C10_Witness ==
    /\ sstate = "merged"
    /\ Len(candidates) = 3
    /\ Len(snippets) = 2
    /\ \E k \in 1..2 : snippets[k].MatchInfo[1] = "Multiple matches between lines"

\* the sequences that hold the elements of seq in another order
Reorderings(seq) ==
    LET n == Len(seq)
    IN  {[i \in 1..n |-> seq[f[i]]] :
            f \in {g \in [1..n -> 1..n] : \A i, j \in 1..n : i # j => g[i] # g[j]}}

\* C11: the merge does not depend on the order of its input: every
\* permutation of the same snippets gives the same merged sequence, equal in
\* StartLine, EndLine, Content and MatchInfo, snippets that share a StartLine
\* included.
C11_MergeOrderIndependent ==
    sstate = "merged" =>
        \A p \in Reorderings(candidates) :
            \A r \in mergeOverlappingSnippets(p) : r = snippets

\* the ranges of a and b overlap in part: they share a line and each has a
\* line the other lacks, a starting first
PartialOverlap(a, b) ==
    a.StartLine < b.StartLine /\ b.StartLine <= a.EndLine /\ a.EndLine < b.EndLine

\* C12: two snippets of one file whose ranges overlap in part come out of
\* mergeFormattingSnippets as one snippet whose range is the union of both;
\* the ranges [5,10] and [9,15] give [5,15].
C12_FormatMergeUnion ==
    (/\ fstate = "merged"
     /\ Len(fsnippets) = 2
     /\ \/ PartialOverlap(fsnippets[1], fsnippets[2])
        \/ PartialOverlap(fsnippets[2], fsnippets[1]))
        => /\ Len(fmerged) = 1
           /\ fmerged[1].StartLine = Min(fsnippets[1].StartLine, fsnippets[2].StartLine)
           /\ fmerged[1].EndLine = Max(fsnippets[1].EndLine, fsnippets[2].EndLine)

\* the scenario: [5,10] and [9,15] merged into [5,15]
C12_Witness ==
    /\ fstate = "merged"
    /\ fsnippets = <<FormatSnippet(5, 10), FormatSnippet(9, 15)>>
    /\ Len(fmerged) = 1
    /\ fmerged[1].StartLine = 5
    /\ fmerged[1].EndLine = 15

\* no line the scanner yields matches an expression of the file's rule list
NoLineMatches ==
    \A i \in 1..Len(ScannerLines(fileContents)) :
        \A k \in 1..Len(PatternsFor(fileLanguage)) :
            FindStringSubmatch(PatternsFor(fileLanguage)[k].Pattern,
                               TrimSpace(ScannerLines(fileContents)[i])) = <<>>

\* C13: for every readable file, whatever its content and its language,
\* CollectHeaders returns without error, and when no line matches any rule
\* the sequence it returns is empty.  A line of MaxScanTokenSize characters
\* refutes this: the scanner stops with an error and CollectHeaders returns it.
C13_ReadableNeverFails ==
    fileReadable =>
        /\ hstate # "failed"
        /\ (hstate = "returned" /\ NoLineMatches) => headers = <<>>

\* C14: the LineNum values of the headers CollectHeaders returns are
\* non-decreasing in the order of the sequence, also when an import block is
\* appended at its closing line.
C14_LineNumNonDecreasing ==
    hstate = "returned" =>
        \A i \in 1..(Len(headers) - 1) : headers[i].LineNum <= headers[i + 1].LineNum

\* a returned sequence with an import block closed lines after it was opened,
\* and a header before or after it
C14_Witness ==
    /\ hstate = "returned"
    /\ Len(headers) >= 2
    /\ \E i \in 1..Len(headers) :
          /\ headers[i].Type = "Import"
          /\ headers[i].EndLine > headers[i].LineNum

\* C15: in a Go file the lines import ( , "fmt" and ) give exactly one Import
\* header, appended at the ) line, with LineNum 1, EndLine 3 and one Import
\* child for the line between, and the block is open after the first line.
\* The model refutes it: the Go Import rule names no group, so the rule loop
\* passes it by, the block is never opened and no header comes out.
C15_GoImportBlock ==
    (fileLanguage = "go" /\ fileReadable
     /\ ScannerLines(fileContents) = <<LImport, LQuoted, LParen>>)
    => /\ (hstate = "scanning" /\ lineNum \in {1, 2}) => inImportBlock
       /\ hstate = "returned" =>
             /\ Len(headers) = 1
             /\ headers[1].Type = "Import"
             /\ headers[1].LineNum = 1
             /\ headers[1].EndLine = 3
             /\ Len(headers[1].Children) = 1
             /\ headers[1].Children[1].Type = "Import"
             /\ headers[1].Children[1].LineNum = 2

\* C16: in a Python file a def line with self, indented under a class line,
\* comes out as a Method header whose Parent is the class.  The model refutes
\* it: the rules see the trimmed line, which the Function rule matches first
\* (and the Method rule, asking for leading white space, never matches), so
\* the header is a Function without Parent.
C16_PythonMethodParent ==
    (hstate = "returned" /\ fileLanguage = "python" /\ fileReadable)
    => \A i \in 1..(Len(ScannerLines(fileContents)) - 1) :
          (ScannerLines(fileContents)[i] = LPyClass
           /\ ScannerLines(fileContents)[i + 1] = LPyMethod)
          => \E k \in 1..Len(headers) :
                /\ headers[k].LineNum = i + 1
                /\ headers[k].Type = "Method"
                /\ headers[k].Name = <<"g", "e", "t">>
                /\ headers[k].Parent = <<"R", "e", "p", "o">>

\* C17: a Struct header gets one Field per line of its block that declares a
\* field, none for the declaration line itself, and the line of the closing
\* brace as EndLine; for the lines type Repo struct { , db string and } that
\* is the one Field db of line 2 and EndLine 3.  The model refutes it: the
\* declaration line is read as a member line too and gives a Field "type".
C17_StructMembers ==
    (hstate = "returned" /\ fileLanguage = "go" /\ fileReadable)
    => \A k \in 1..Len(headers) :
          headers[k].Type = "Struct"
          => /\ \A c \in 1..Len(headers[k].Children) :
                   headers[k].Children[c].LineNum # headers[k].LineNum
             /\ ScannerLines(fileContents) = <<LStruct, LField, LClose>>
                => /\ headers[k].EndLine = 3
                   /\ Len(headers[k].Children) = 1
                   /\ headers[k].Children[1].Type = "Field"
                   /\ headers[k].Children[1].Name = <<"d", "b">>
                   /\ headers[k].Children[1].LineNum = 2

\* SearchInFiles has come back
FilesDone == lstate \in {"returned", "failed"}

\* C18: with a pattern that is not a valid regular expression SearchInFiles
\* returns an error for every list of files, the empty list too, and its
\* result holds no file.  The model refutes it: the pattern is compiled
\* inside the loop over the files, so with no file it is never compiled.
C18_InvalidPatternFails ==
    (FilesDone /\ ~Compiles(Expression(searchPattern, searchOpts)))
    => /\ searchErr # "nil"
       /\ resultFiles = <<>>

\* the files of the list that cannot be read
Unreadable == {i \in 1..Len(searchFiles) : ~searchFiles[i].Readable}

RECURSIVE MatchingUpTo(_)
\* the places, in order, of the files among the first n that have a match
MatchingUpTo(n) ==
    IF n = 0 THEN <<>>
    ELSE MatchingUpTo(n - 1)
             \o (IF searchInFile(searchFiles[n].Lines, searchPattern, searchOpts) # <<>>
                 THEN <<n>> ELSE <<>>)

\* C19: a file that cannot be read makes the operation fail and contribute
\* nothing.  CollectHeaders on it returns an error and no headers.
\* SearchInFiles on a list with such a file returns an error, has searched no
\* file after the first of them, and its result holds only files before it
\* that had matches; when the pattern compiles the error is the read error of
\* that file and the result holds exactly those files, in list order.
C19_UnreadableFileFails ==
    /\ (~fileReadable /\ hstate # "scanning") => (hstate = "failed" /\ headers = <<>>)
    /\ (FilesDone /\ Unreadable # {})
       => /\ lstate = "failed"
          /\ fileIndex < SetMin(Unreadable)
          /\ \A k \in 1..Len(resultFiles) :
                /\ resultFiles[k].Path < SetMin(Unreadable)
                /\ resultFiles[k].Snippets # <<>>
          /\ Compiles(Expression(searchPattern, searchOpts))
             => /\ searchErr = "read"
                /\ fileIndex = SetMin(Unreadable) - 1
                /\ [k \in 1..Len(resultFiles) |-> resultFiles[k].Path]
                      = MatchingUpTo(SetMin(Unreadable) - 1)

\* the search failed at the second file, which cannot be read, and the
\* result holds the first, which had a match
C19_Witness ==
    /\ lstate = "failed"
    /\ searchErr = "read"
    /\ Len(searchFiles) = 2
    /\ ~searchFiles[2].Readable
    /\ fileIndex = 1
    /\ Len(resultFiles) = 1
    /\ resultFiles[1].Path = 1

RECURSIVE InOrderFrom(_, _, _, _)
\* the subsequence test the claim describes: the characters pat[k..], each
\* taken literally, occur in line[from..] in order, case folded
InOrderFrom(pat, k, line, from) ==
    IF k > Len(pat) THEN TRUE
    ELSE LET at == {i \in from..Len(line) : Fold(line[i]) = Fold(pat[k])}
         IN  IF at = {} THEN FALSE ELSE InOrderFrom(pat, k + 1, line, SetMin(at) + 1)

\* C20: in fuzzy mode a line matches if and only if the characters of the
\* pattern, each taken literally, occur in it in order, compared without
\* regard to case.  The model refutes it: the characters are joined into a
\* regular expression unescaped, so a dot in the pattern matches any character.
C20_FuzzyLiteralSubsequence ==
    (searchOpts.FuzzySearch /\ lstate # "idle" /\ fileIndex >= 1)
    => {n \in 1..Len(searchFiles[fileIndex].Lines) :
           \E c \in 1..Len(lastMatches) : lastMatches[c].MatchInfo = MatchAt(n)}
       = {n \in 1..Len(searchFiles[fileIndex].Lines) :
           InOrderFrom(searchPattern, 1, searchFiles[fileIndex].Lines[n], 1)}

\* the rules of the file's language whose expression matches line i, trimmed
MatchingRules(i) ==
    {k \in 1..Len(PatternsFor(fileLanguage)) :
        FindStringSubmatch(PatternsFor(fileLanguage)[k].Pattern,
                           TrimSpace(ScannerLines(fileContents)[i])) # <<>>}

\* C24: a line contributes at most one top-level header, and the header
\* comes from the first rule, in the order of the language's rule list, whose
\* expression matches the trimmed line: it has that rule's type and the name
\* that rule's name group gives.
C24_FirstRuleWins ==
    (hstate = "returned" /\ fileReadable)
    => /\ \A i, j \in 1..Len(headers) :
             headers[i].LineNum = headers[j].LineNum => i = j
       /\ \A h \in 1..Len(headers) :
             /\ MatchingRules(headers[h].LineNum) # {}
             /\ LET rule == PatternsFor(fileLanguage)[SetMin(MatchingRules(headers[h].LineNum))]
                IN  /\ headers[h].Type = rule.ElementType
                    /\ headers[h].Name =
                          Group(FindStringSubmatch(rule.Pattern,
                                    TrimSpace(ScannerLines(fileContents)[headers[h].LineNum])),
                                rule.NameGroup)

\* a returned header of a line that two rules match
C24_Witness ==
    /\ hstate = "returned"
    /\ \E h \in 1..Len(headers) :
          /\ Cardinality(MatchingRules(headers[h].LineNum)) >= 2
          /\ headers[h].Type = "Function"
          /\ headers[h].Name = <<"b", "a", "r">>

\* C28: in a C file a line #define NAME ... gives a Define header with Name
\* NAME and the number of that line.  The model refutes it: a line that
\* starts with # is passed over as a comment before the rules are tried.
C28_DefineHeader ==
    (hstate = "returned" /\ fileLanguage = "c" /\ fileReadable)
    => \A i \in 1..Len(ScannerLines(fileContents)) :
          ScannerLines(fileContents)[i] = LDefine
          => \E h \in 1..Len(headers) :
                /\ headers[h].Type = "Define"
                /\ headers[h].Name = <<"M", "A", "X">>
                /\ headers[h].LineNum = i

\* no line of the searched file holds a brace
Braceless ==
    \A i \in 1..Len(fileLines) : Count(fileLines[i], "{") = 0 /\ Count(fileLines[i], "}") = 0

\* C27: in a file without braces whole-function mode gives the fallback
\* window for every match: EndLine is the start line plus 20, or the last
\* line of the file when that comes first.  The model refutes it: with the
\* brace count at zero the forward scan stops at the first line after the
\* match, and the fallback is reached only for a match on the last line.
C27_BracelessFallback ==
    (sstate = "searched" /\ opts.EntireFunction /\ Braceless)
    => \A k \in 1..Len(candidates) :
          candidates[k].EndLine = Min(Len(fileLines), candidates[k].StartLine + fallbackLines)

\* C25: before the merge searchInFile has exactly one candidate snippet for
\* every line of the file that matches the pattern and none for another
\* line, in ascending line order (stated here for the lines shorter than
\* MaxScanTokenSize).  The model refutes it: the lines are read with a scanner
\* that stops at a line of MaxScanTokenSize characters, and the matching
\* lines after it give no candidate.
C25_OneCandidatePerMatch ==
    (lstate # "idle" /\ fileIndex >= 1)
    => /\ \A n \in 1..Len(searchFiles[fileIndex].Lines) :
             Len(searchFiles[fileIndex].Lines[n]) < MaxScanTokenSize
             => Cardinality({c \in 1..Len(lastMatches) :
                                lastMatches[c].MatchInfo = MatchAt(n)})
                = IF MatchString(searchPattern, searchOpts.FuzzySearch,
                                 searchFiles[fileIndex].Lines[n])
                  THEN 1 ELSE 0
       /\ \A c, d \in 1..Len(lastMatches) :
             c < d => lastMatches[c].MatchInfo[2] < lastMatches[d].MatchInfo[2]

\* the Content of the snippet has as many lines as its range
ContentFitsRange(snip) ==
    Len(Split(snip.Content, "\n")) = snip.EndLine - snip.StartLine + 1

\* C29: when the Content of every snippet given to mergeOverlappingSnippets
\* has exactly EndLine - StartLine + 1 lines, so has the Content of every
\* snippet it returns, also when two snippets one to three lines apart are
\* merged.  The model refutes it: across a gap the current snippet never has
\* as many lines as the end line moves, nothing is appended, and the range
\* grows while the Content stays.
C29_ContentMatchesRange ==
    (sstate = "merged" /\ \A c \in 1..Len(candidates) : ContentFitsRange(candidates[c]))
    => \A k \in 1..Len(snippets) : ContentFitsRange(snippets[k])

\* C21: for each of the search, glob and template commands, with
\* --max-tokens m > 0 and an estimated token count above m the command
\* returns an error and writes nothing; with m = 0 the output is written
\* whatever its size (to a target that takes it).  The model refutes it for
\* the glob command, which never looks at --max-tokens.
C21_TokenLimit ==
    cstate = "done"
    => /\ (maxTokens > 0 /\ (Len(formatted) + 3) \div 4 > maxTokens)
          => (cmdErr # "nil" /\ written = <<>>)
       /\ (maxTokens = 0 /\ targetOk) => (cmdErr = "nil" /\ written = <<formatted>>)

\* the text with the files in the order in which they were searched
TextAsSearched ==
    {FilesText(lists) :
        lists \in {l \in [1..Len(resultFiles) ->
                             UNION {mergeFormattingSnippets(
                                        FileSnippetsOf(resultFiles, resultFiles[i].Path)) :
                                            i \in 1..Len(resultFiles)}] :
                     \A i \in 1..Len(resultFiles) :
                        l[i] \in mergeFormattingSnippets(
                                     FileSnippetsOf(resultFiles, resultFiles[i].Path))}}

\* C22: the formatted output of a search is fixed by the list of files, their
\* contents, the pattern and the options, the files appearing in the order in
\* which they were searched.  The model refutes it: the loop over the map of
\* FormatSearchResults may visit two files in either order.
C22_OutputAsSearched ==
    ostate = "formatted" => outText \in TextAsSearched

\* the snippets of the first pass for the file written at place i
FirstPassOf(i) ==
    (CHOOSE f \in {resultFiles[k] : k \in 1..Len(resultFiles)} :
        f.Path = outOrder[i]).Snippets

\* C30: on the result of SearchInFiles the second merge pass is the identity:
\* for each file, mergeFormattingSnippets returns as many snippets as the
\* first pass left, with the same StartLine, EndLine and Content, in the same
\* order.
C30_SecondPassIdentity ==
    ostate = "formatted"
    => \A i \in 1..Len(outOrder) :
          /\ Len(outSnippets[i]) = Len(FirstPassOf(i))
          /\ \A k \in 1..Len(outSnippets[i]) :
                /\ outSnippets[i][k].StartLine = FirstPassOf(i)[k].StartLine
                /\ outSnippets[i][k].EndLine = FirstPassOf(i)[k].EndLine
                /\ outSnippets[i][k].Content = FirstPassOf(i)[k].Content

\* a file with two snippets has gone through the second pass
C30_Witness ==
    /\ ostate = "formatted"
    /\ \E i \in 1..Len(outOrder) : Len(FirstPassOf(i)) >= 2

\* the tags of a line that name a file that does not exist
MissingTags(fs, line) ==
    SelectSeq(FindAllTags(line, 1),
              LAMBDA tag : /\ ~Contains(TrimSpace(tag.Content), <<"*">>)
                           /\ FileAt(fs, FullPath(TrimSpace(tag.Content))).Status
                                  = "missing")

RECURSIVE SubstituteAt(_, _, _, _)
\* the line from place pos on with each tag replaced where it stands
SubstituteAt(fs, line, matches, pos) ==
    IF matches = <<>> THEN SubSeq(line, pos, Len(line))
    ELSE SubSeq(line, pos, Head(matches).Start - 1)
             \o Replacement(fs, Head(matches).Content)
             \o SubstituteAt(fs, line, Tail(matches),
                             Head(matches).Start + Len(Head(matches).Full))

\* C23: a tag naming a file that does not exist does not make template
\* processing fail: in a template whose lines the scanner can hold, every
\* line with such a tag is written with each of its tags replaced where it
\* stands, the missing file's tag by the empty string, and processing ends
\* without an error.  The model refutes it: the tag stays in the output when
\* the text put in for an earlier tag of the line holds the same tag.
C23_MissingFileTag ==
    (\A k \in 1..Len(template) : Len(template[k]) < MaxScanTokenSize)
    => /\ tstate # "failed"
       /\ \A k \in 1..Len(processed) :
             MissingTags(fileSystem, template[k]) # <<>>
             => processed[k] = WithNewLine(SubstituteAt(fileSystem, template[k],
                                                        FindAllTags(template[k], 1), 1))

\* C26: in Python mode a parameter written `name = default`, `name: type` or
\* `name: type = default` gives one Parameter with Name = name and Type = the
\* annotation alone (empty when there is none).  The model refutes it for
\* `name: type = default`: everything after the colon goes to Type.
C26_PythonDefaultDropped ==
    (pstate = "params" /\ built.kind = "python")
    => params = <<ParameterInfo(built.names[1], built.type)>>

=============================================================================
